---- MODULE Spec2Model ----
(***************************************************************************)
(* Cairn: chunk streaming (World::update_chunks), spatial queries and the  *)
(* cached mesh build (Mesh::voxel, Mesh::chunk, Mesh::merged, Mesh::world). *)
(*                                                                         *)
(* Scaling.  The source fixes CHUNK_SIZE = 32, RENDER_DISTANCE_XZ = 6 and  *)
(* RENDER_DISTANCE_Y = 3.  The model keeps the names and the code that     *)
(* uses them, with smaller values, so that a world fits in a state.  The   *)
(* layers of Chunk::dev_chunk are kept relative to the top of the chunk    *)
(* (31 = CHUNK_SIZE-1, 27 = CHUNK_SIZE-5, 30 = CHUNK_SIZE-2,               *)
(* 26 = CHUNK_SIZE-6).                                                     *)
(*                                                                         *)
(* Specifications.  Spec is the world as App::update drives it: streaming  *)
(* passes (World::update_chunks) and mesh builds (Mesh::world).  SpecEdit   *)
(* is the streaming passes over a world whose loaded chunks are written    *)
(* with Chunk::set_voxel between passes; the repository has no such caller *)
(* yet (chunks only ever hold what Chunk::dev_chunk generated), so         *)
(* SpecEdit is where a statement about edited chunks can be told from one  *)
(* about generated chunks.  SpecMesh is one call of a pure function        *)
(* (Mesh::voxel, Mesh::merged) on arguments drawn by its initial states,   *)
(* and SpecChunk is the same for the functions of WorldPosition,           *)
(* LocalChunkPosition and Chunk.  SpecMeshChunk is streaming passes        *)
(* followed by one call of Mesh::chunk on a drawn chunk.  SpecApp is the   *)
(* frames of App::update, each a pass and a rebuild or nothing.            *)
(* SpecChunkOps is a chunk and the writes made to it, SpecRange one call   *)
(* of determine_chunks_in_range.  SpecFrame is the frames of App::update   *)
(* in the steps of update_chunks and Mesh::world (eviction, load, reading  *)
(* of the keys, the tasks of the parallel map one by one, the commit loop, *)
(* the merge), with the iteration order of the HashMap and the order in    *)
(* which the tasks run drawn from small sets; SpecFrameFair adds that a    *)
(* frame that has begun keeps taking steps.                                *)
(*                                                                         *)
(* Numbers.  A vertex position x +- 0.5 is kept doubled (2x +- 1); a       *)
(* texture coordinate is kept in units of one atlas tile                   *)
(* (texture_size / atlas_width).                                           *)
(***************************************************************************)
EXTENDS Integers, Sequences, FiniteSets, TLC

\* ------------------------------------------------------------------ bounds
CHUNK_SIZE == 2
RENDER_DISTANCE_XZ == 1
RENDER_DISTANCE_Y == 1
\* Number of edits (Chunk::set_voxel on a loaded chunk) in a behaviour of SpecEdit
MaxEdits == 1
\* Mesh::merged is called on lists of at most MaxMeshes meshes
MaxMeshes == 2
\* Number of writes (set_voxel, set_y_slice, set_y_range) to the chunk of SpecChunkOps
MaxChunkOps == 2
\* Number of frames that run a pass in a behaviour of SpecFrame
MaxFrames == 2

\* last_update_position, chunk_data, chunk_meshes: the fields of World.
\* edits: the number of Chunk::set_voxel calls made on loaded chunks.
\* args: the arguments of a call of a pure function (Mesh::voxel, Mesh::merged,
\* ...), or what a frame of App::update compared;
\* result: None until the call is over, then Some(its outcome).
VARIABLES last_update_position, chunk_data, chunk_meshes, edits, args, result

vars == <<last_update_position, chunk_data, chunk_meshes, edits, args, result>>

\* ------------------------------------------------------- values and errors
\* Option<T>
None == <<>>
Some(v) == <<v>>
\* The outcome of a call that may panic (expect, unwrap_or_else(panic!)):
\* Ok(v) when it returns v, Panic when it does not return
Panic == <<>>
Ok(v) == <<v>>
Panicked(r) == Len(r) = 0
Unwrap(r) == r[1]

\* `let x = v; F(x)`: v is computed once and F gets its value
Let(v, F(_)) == CHOOSE r \in {F(x) : x \in {v}} : TRUE
\* A map (function) with every entry computed, as a HashMap holds it
Strict(f) == f @@ <<>>

\* usize is 64 bits wide on the source's targets; the model keeps the widest
\* power of two that TLC's integers hold. Every value compared with a
\* usize here is far below it.
UsizeBits == 29
\* `v as usize` of an i32 v: two's complement wrap of a negative value
AsUsize(v) == v % (2 ^ UsizeBits)
\* `v as i32` of a usize v: the same bits read as a signed value
AsI32(v) == ((v + 2 ^ (UsizeBits - 1)) % (2 ^ UsizeBits)) - 2 ^ (UsizeBits - 1)

\* ------------------------------------------------------------ voxel/registry
VoxelType == <<"Air", "Stone", "Dirt", "Grass">>
VoxelTypes == {VoxelType[i] : i \in 1..Len(VoxelType)}
\* #[repr(u16)] IntoPrimitive: the discriminant
VoxelTypeInto(t) == (CHOOSE i \in 1..Len(VoxelType) : VoxelType[i] = t) - 1
\* TryFromPrimitive: Err for a value that is no discriminant
VoxelTypeTryFrom(n) == IF n + 1 \in 1..Len(VoxelType) THEN Some(VoxelType[n + 1]) ELSE None

VoxelTexturesUniform(texture) ==
    [front |-> texture, back |-> texture, right |-> texture,
     left |-> texture, top |-> texture, bottom |-> texture]
VoxelTexturesTopBottom(top_texture, bottom_texture, side_texture) ==
    [front |-> side_texture, back |-> side_texture, right |-> side_texture,
     left |-> side_texture, top |-> top_texture, bottom |-> bottom_texture]
VoxelPropertiesDefault ==
    [textures |-> VoxelTexturesUniform("Stone"), is_invisible |-> FALSE, is_occluding |-> TRUE]

VoxelRegistryInit ==
    [t \in VoxelTypes |->
        CASE t = "Air" -> [textures |-> VoxelTexturesUniform("Air"),
                           is_invisible |-> TRUE, is_occluding |-> FALSE]
          [] t = "Stone" -> [VoxelPropertiesDefault EXCEPT !.textures = VoxelTexturesUniform("Stone")]
          [] t = "Dirt" -> [VoxelPropertiesDefault EXCEPT !.textures = VoxelTexturesUniform("Dirt")]
          [] t = "Grass" -> [VoxelPropertiesDefault EXCEPT
                               !.textures = VoxelTexturesTopBottom("GrassTop", "Dirt", "GrassSide")]]

\* A lookup that hands out the default properties for a type without an entry
RegistryGetPropertiesOrDefault(registry, voxel_type) ==
    IF voxel_type \in DOMAIN registry THEN Ok(registry[voxel_type]) ELSE Ok(VoxelPropertiesDefault)

\* VoxelRegistry::get_properties on the registry value self.properties: panics
\* for a type without an entry
RegistryGetProperties(registry, voxel_type) ==
    IF voxel_type \in DOMAIN registry THEN Ok(registry[voxel_type]) ELSE Panic

\* voxel_registry.get_properties(voxel_type) on the registry of the world, which
\* is the one VoxelRegistry::init built
get_properties(voxel_type) == RegistryGetProperties(VoxelRegistryInit, voxel_type)

\* ------------------------------------------------------------- coordinates
\* i32::div_euclid by a positive divisor: the floor of the quotient
\* Division that rounds toward zero, as `/` on i32 does
DivTruncate(a, b) == IF a >= 0 THEN a \div b ELSE -((-a) \div b)

DivEuclid(a, b) == a \div b

chunk_position(wp) ==
    <<DivEuclid(wp[1], CHUNK_SIZE), DivEuclid(wp[2], CHUNK_SIZE), DivEuclid(wp[3], CHUNK_SIZE)>>

\* WorldPosition::local_chunk_position: <<chunk position, local position>>
local_chunk_position(wp) ==
    Let(chunk_position(wp), LAMBDA cp :
        <<cp, <<AsUsize(wp[1] - cp[1] * CHUNK_SIZE),
                AsUsize(wp[2] - cp[2] * CHUNK_SIZE),
                AsUsize(wp[3] - cp[3] * CHUNK_SIZE)>>>>)

\* LocalChunkPosition::get_i32
get_i32(lp) == <<AsI32(lp[1]), AsI32(lp[2]), AsI32(lp[3])>>

\* A world_position that adds the chunk position without scaling it by CHUNK_SIZE
world_position_unscaled(lp, cp) ==
    <<get_i32(lp)[1] + cp[1], get_i32(lp)[2] + cp[2], get_i32(lp)[3] + cp[3]>>

\* LocalChunkPosition::world_position
world_position(lp, cp) ==
    <<get_i32(lp)[1] + cp[1] * CHUNK_SIZE,
      get_i32(lp)[2] + cp[2] * CHUNK_SIZE,
      get_i32(lp)[3] + cp[3] * CHUNK_SIZE>>

front(wp) == <<wp[1], wp[2], wp[3] + 1>>
back(wp) == <<wp[1], wp[2], wp[3] - 1>>
right(wp) == <<wp[1] + 1, wp[2], wp[3]>>
left(wp) == <<wp[1] - 1, wp[2], wp[3]>>
top(wp) == <<wp[1], wp[2] + 1, wp[3]>>
bottom(wp) == <<wp[1], wp[2] - 1, wp[3]>>

\* -------------------------------------------------------------------- chunk
\* A linearization that gives z the stride of y
index_flat(x, y, z) == x + y * CHUNK_SIZE + z * CHUNK_SIZE

\* Chunk::index (0-based); the model's sequences are 1-based
index(x, y, z) == x + y * CHUNK_SIZE + z * CHUNK_SIZE * CHUNK_SIZE

ChunkEmpty(position) ==
    [position |-> position,
     voxels |-> Strict([i \in 1..(CHUNK_SIZE * CHUNK_SIZE * CHUNK_SIZE) |-> VoxelTypeInto("Air")])]

\* A set_voxel without the bounds check
set_voxel_unchecked(chunk, lp, voxel_type) ==
    [chunk EXCEPT !.voxels[index(lp[1], lp[2], lp[3]) + 1] = VoxelTypeInto(voxel_type)]

set_voxel(chunk, lp, voxel_type) ==
    IF lp[1] >= CHUNK_SIZE \/ lp[2] >= CHUNK_SIZE \/ lp[3] >= CHUNK_SIZE
    THEN chunk
    ELSE [chunk EXCEPT !.voxels[index(lp[1], lp[2], lp[3]) + 1] = VoxelTypeInto(voxel_type)]

\* the x/z loops of set_y_slice, cell i of the slice being (i \div S, y, i % S)
RECURSIVE SetSliceFrom(_, _, _, _)
SetSliceFrom(chunk, y, voxel_type, i) ==
    IF i >= CHUNK_SIZE * CHUNK_SIZE THEN chunk
    ELSE SetSliceFrom(set_voxel(chunk, <<i \div CHUNK_SIZE, y, i % CHUNK_SIZE>>, voxel_type),
                      y, voxel_type, i + 1)

set_y_slice(chunk, y, voxel_type) ==
    IF y >= CHUNK_SIZE THEN chunk ELSE SetSliceFrom(chunk, y, voxel_type, 0)

\* set_y_range over the inclusive range lo..=hi (empty when hi < lo)
RECURSIVE set_y_range(_, _, _, _)
set_y_range(chunk, lo, hi, voxel_type) ==
    IF lo > hi THEN chunk
    ELSE set_y_range(set_y_slice(chunk, lo, voxel_type), lo + 1, hi, voxel_type)

Max0(v) == IF v < 0 THEN 0 ELSE v

dev_chunk(position) ==
    LET c0 == ChunkEmpty(position)
        c1 == set_y_slice(c0, CHUNK_SIZE - 1, "Grass")
        c2 == set_y_range(c1, Max0(CHUNK_SIZE - 5), CHUNK_SIZE - 2, "Dirt")
        c3 == set_y_range(c2, 0, CHUNK_SIZE - 6, "Stone")
    IN c3

\* A get_voxel_type whose bounds check only looks at x: the other components index the array
ChunkGetVoxelTypeCheckedX(chunk, lp) ==
    IF lp[1] >= CHUNK_SIZE
    THEN Ok("Air")
    ELSE IF index(lp[1], lp[2], lp[3]) + 1 \notin DOMAIN chunk.voxels THEN Panic
    ELSE Let(VoxelTypeTryFrom(chunk.voxels[index(lp[1], lp[2], lp[3]) + 1]), LAMBDA t :
             IF t = None THEN Panic ELSE Ok(t[1]))

\* Chunk::get_voxel_type: expect() panics on a stored value that is no VoxelType
ChunkGetVoxelType(chunk, lp) ==
    IF lp[1] >= CHUNK_SIZE \/ lp[2] >= CHUNK_SIZE \/ lp[3] >= CHUNK_SIZE
    THEN Ok("Air")
    ELSE Let(VoxelTypeTryFrom(chunk.voxels[index(lp[1], lp[2], lp[3]) + 1]), LAMBDA t :
             IF t = None THEN Panic ELSE Ok(t[1]))

\* -------------------------------------------------------------------- world
\* The World struct as a value (voxel_registry and texture_atlas are immutable
\* after World::new and are the definitions VoxelRegistryInit and TextureAtlas)
World == [last_update_position |-> last_update_position,
          chunk_data |-> chunk_data,
          chunk_meshes |-> chunk_meshes]

WorldNew == [last_update_position |-> None,
             chunk_data |-> <<>>,
             chunk_meshes |-> <<>>]

Sq(v) == v * v

\* The loops of determine_chunks_in_range: candidate i of the box
\* (x outer, y middle, z inner), and whether the loops push it
BoxXZ == 2 * RENDER_DISTANCE_XZ + 1
BoxY == 2 * RENDER_DISTANCE_Y + 1
BoxPosition(origin, i) ==
    <<origin[1] - RENDER_DISTANCE_XZ + (i \div (BoxY * BoxXZ)),
      origin[2] - RENDER_DISTANCE_Y + ((i \div BoxXZ) % BoxY),
      origin[3] - RENDER_DISTANCE_XZ + (i % BoxXZ)>>
\* A test that weighs the vertical difference into the distance
BoxPushedSphere(origin, p) ==
    Sq(p[1] - origin[1]) + Sq(p[2] - origin[2]) + Sq(p[3] - origin[3]) <= Sq(RENDER_DISTANCE_XZ)

BoxPushed(origin, p) ==
    /\ ~(Sq(p[1] - origin[1]) > Sq(RENDER_DISTANCE_XZ))
    /\ Sq(p[1] - origin[1]) + Sq(p[3] - origin[3]) <= Sq(RENDER_DISTANCE_XZ)

\* chunks_in_range before the sort: the pushed candidates, in loop order
BoxPushes(origin) ==
    SelectSeq([i \in 1..(BoxXZ * BoxY * BoxXZ) |-> BoxPosition(origin, i - 1)],
              LAMBDA p : BoxPushed(origin, p))

SeqToSet(s) == {s[i] : i \in 1..Len(s)}

\* A key that leaves out the vertical difference
SortKeyHorizontal(origin, p) == Sq(p[1] - origin[1]) + Sq(p[3] - origin[3])

\* the key of sort_by_cached_key
SortKey(origin, p) == Sq(p[1] - origin[1]) + Sq(p[2] - origin[2]) + Sq(p[3] - origin[3])

\* sort_by_cached_key is a stable sort: the elements in the order of their keys,
\* those with the same key in the order they have in s. Bucket v holds the
\* elements with key v, in the order of s.
SortBucket(s, keys, v) ==
    Let(SelectSeq([i \in 1..Len(s) |-> i], LAMBDA i : keys[i] = v), LAMBDA at :
        [k \in 1..Len(at) |-> s[at[k]]])

RECURSIVE SortBucketsFrom(_, _, _, _)
SortBucketsFrom(s, keys, v, max_key) ==
    IF v > max_key THEN <<>>
    ELSE SortBucket(s, keys, v) \o SortBucketsFrom(s, keys, v + 1, max_key)

StableSortByKey(s, keys) ==
    IF Len(s) = 0 THEN s
    ELSE Let(CHOOSE m \in SeqToSet(keys) : \A k \in SeqToSet(keys) : k <= m, LAMBDA max_key :
             SortBucketsFrom(s, keys, 0, max_key))

determine_chunks_in_range(origin) ==
    Let(BoxPushes(origin), LAMBDA chunks_in_range :
    Let(Strict([i \in 1..Len(chunks_in_range) |-> SortKey(origin, chunks_in_range[i])]), LAMBDA keys :
        Strict(StableSortByKey(chunks_in_range, keys))))

\* A pass that evicts nothing
unload_nothing(data, chunks_in_range_set) == data

\* HashMap::retain
unload_out_of_range_chunks(data, chunks_in_range_set) ==
    Strict([p \in {q \in DOMAIN data : q \in chunks_in_range_set} |-> data[p]])

\* HashMap::insert
MapInsert(m, k, v) == (k :> v) @@ m

\* An iteration that generates the chunk whether or not it is loaded
LoadStepRegenerating(data, chunk_pos) == MapInsert(data, chunk_pos, dev_chunk(chunk_pos))

\* One iteration of the loop of load_in_range_chunks
LoadStep(data, chunk_pos) ==
    IF chunk_pos \notin DOMAIN data THEN MapInsert(data, chunk_pos, dev_chunk(chunk_pos)) ELSE data

\* Iterations lo..hi of the loop, in order (split in halves, which bounds the
\* depth of the evaluation and leaves the order of the iterations as it is)
RECURSIVE LoadRange(_, _, _, _)
LoadRange(data, chunks_in_range, lo, hi) ==
    IF lo > hi THEN data
    ELSE IF lo = hi THEN LoadStep(data, chunks_in_range[lo])
    ELSE Let(LoadRange(data, chunks_in_range, lo, (lo + hi) \div 2), LAMBDA d :
             LoadRange(d, chunks_in_range, ((lo + hi) \div 2) + 1, hi))

\* A loop that stops one position short of the end of chunks_in_range
load_all_but_last(data, chunks_in_range) ==
    LoadRange(data, chunks_in_range, 1, Len(chunks_in_range) - 1)

\* A loop that generates at most three missing chunks in a pass
load_three_missing(data, chunks_in_range) ==
    Let(SelectSeq(chunks_in_range, LAMBDA p : p \notin DOMAIN data), LAMBDA missing :
        LoadRange(data, missing, 1, IF Len(missing) < 3 THEN Len(missing) ELSE 3))

load_in_range_chunks(data, chunks_in_range) ==
    LoadRange(data, chunks_in_range, 1, Len(chunks_in_range))

\* World::update_chunks as a function of the world it is called on
update_chunks(w, origin) ==
    Let(determine_chunks_in_range(origin), LAMBDA chunks_in_range_vec :
    Let(SeqToSet(chunks_in_range_vec), LAMBDA chunks_in_range_set :
    Let(unload_out_of_range_chunks(w.chunk_data, chunks_in_range_set), LAMBDA unloaded :
        [last_update_position |-> Some(origin),
         chunk_data |-> load_in_range_chunks(unloaded, chunks_in_range_vec),
         chunk_meshes |-> w.chunk_meshes])))

\* A query that generates the terrain of a chunk that is not loaded
get_voxel_type_generated(w, wp) ==
    Let(local_chunk_position(wp), LAMBDA cl :
        IF cl[1] \in DOMAIN w.chunk_data
        THEN ChunkGetVoxelType(w.chunk_data[cl[1]], cl[2])
        ELSE ChunkGetVoxelType(dev_chunk(cl[1]), cl[2]))

\* World::get_voxel_type
get_voxel_type(w, wp) ==
    Let(local_chunk_position(wp), LAMBDA cl :
        IF cl[1] \in DOMAIN w.chunk_data
        THEN ChunkGetVoxelType(w.chunk_data[cl[1]], cl[2])
        ELSE Ok("Air"))

\* A query that takes a voxel of a chunk that is not loaded for an occluding one
get_is_occluding_unloaded_solid(w, wp) ==
    IF chunk_position(wp) \notin DOMAIN w.chunk_data THEN Ok(TRUE)
    ELSE Let(get_voxel_type(w, wp), LAMBDA voxel_type :
             IF Panicked(voxel_type) THEN Panic
             ELSE Let(get_properties(Unwrap(voxel_type)), LAMBDA properties :
                      IF Panicked(properties) THEN Panic ELSE Ok(Unwrap(properties).is_occluding)))

\* World::get_is_occluding (a panic of either callee propagates)
get_is_occluding(w, wp) ==
    Let(get_voxel_type(w, wp), LAMBDA voxel_type :
        IF Panicked(voxel_type) THEN Panic
        ELSE Let(get_properties(Unwrap(voxel_type)), LAMBDA properties :
                 IF Panicked(properties) THEN Panic ELSE Ok(Unwrap(properties).is_occluding)))

\* World::get_occluding_neighbors
get_occluding_neighbors(w, wp) ==
    Let([front |-> get_is_occluding(w, front(wp)),
         back |-> get_is_occluding(w, back(wp)),
         right |-> get_is_occluding(w, right(wp)),
         left |-> get_is_occluding(w, left(wp)),
         top |-> get_is_occluding(w, top(wp)),
         bottom |-> get_is_occluding(w, bottom(wp))], LAMBDA n :
        IF \E d \in DOMAIN n : Panicked(n[d]) THEN Panic
        ELSE Ok([d \in DOMAIN n |-> Unwrap(n[d])]))

\* ------------------------------------------------------------ texture atlas
\* TextureAtlas::init: the textures that carry bytes, in order (Air has none)
LoadedTextures == <<"GrassTop", "GrassSide", "Dirt", "Stone">>
TextureCount == Len(LoadedTextures) + 1
\* (texture_count as f32).sqrt().ceil()
TexturesPerRow == CHOOSE n \in 1..TextureCount : n * n >= TextureCount /\ (n - 1) * (n - 1) < TextureCount

\* calculate_coordinates for the tile at column x, row y: <<u_min, u_max, v_min, v_max>>
calculate_coordinates(x, y) == <<x, x + 1, y, y + 1>>

\* TextureAtlas::build: the Error tile at 0, loaded texture i (0-based) at tile i + 1
TextureAtlas ==
    [t \in {"Error"} \cup SeqToSet(LoadedTextures) |->
        IF t = "Error" THEN calculate_coordinates(0, 0)
        ELSE LET i == CHOOSE k \in 1..Len(LoadedTextures) : LoadedTextures[k] = t
             IN calculate_coordinates(i % TexturesPerRow, i \div TexturesPerRow)]

\* TextureAtlas::get_coordinates: expect() panics for a texture not in the atlas
get_coordinates(texture) ==
    IF texture \in DOMAIN TextureAtlas THEN Ok(TextureAtlas[texture]) ELSE Panic

\* --------------------------------------------------------------------- mesh
Directions == <<"front", "back", "right", "left", "top", "bottom">>

MeshEmpty == [vertices |-> <<>>, indices |-> <<>>]

\* The four Vertex::new literals of one face of Mesh::voxel; a position is
\* doubled (x - 0.5 is 2x - 1), c is <<u_min, u_max, v_min, v_max>>
FaceVertices(wp, dir, c) ==
    LET x == 2 * wp[1]
        y == 2 * wp[2]
        z == 2 * wp[3]
        u_min == c[1]
        u_max == c[2]
        v_min == c[3]
        v_max == c[4]
    IN CASE dir = "front" ->
              << <<<<x - 1, y - 1, z + 1>>, <<u_min, v_max>>>>,
                 <<<<x + 1, y - 1, z + 1>>, <<u_max, v_max>>>>,
                 <<<<x + 1, y + 1, z + 1>>, <<u_max, v_min>>>>,
                 <<<<x - 1, y + 1, z + 1>>, <<u_min, v_min>>>> >>
         [] dir = "back" ->
              << <<<<x - 1, y - 1, z - 1>>, <<u_max, v_max>>>>,
                 <<<<x - 1, y + 1, z - 1>>, <<u_max, v_min>>>>,
                 <<<<x + 1, y + 1, z - 1>>, <<u_min, v_min>>>>,
                 <<<<x + 1, y - 1, z - 1>>, <<u_min, v_max>>>> >>
         [] dir = "right" ->
              << <<<<x + 1, y - 1, z - 1>>, <<u_max, v_max>>>>,
                 <<<<x + 1, y + 1, z - 1>>, <<u_max, v_min>>>>,
                 <<<<x + 1, y + 1, z + 1>>, <<u_min, v_min>>>>,
                 <<<<x + 1, y - 1, z + 1>>, <<u_min, v_max>>>> >>
         [] dir = "left" ->
              << <<<<x - 1, y - 1, z - 1>>, <<u_min, v_max>>>>,
                 <<<<x - 1, y - 1, z + 1>>, <<u_max, v_max>>>>,
                 <<<<x - 1, y + 1, z + 1>>, <<u_max, v_min>>>>,
                 <<<<x - 1, y + 1, z - 1>>, <<u_min, v_min>>>> >>
         [] dir = "top" ->
              << <<<<x - 1, y + 1, z - 1>>, <<u_min, v_min>>>>,
                 <<<<x - 1, y + 1, z + 1>>, <<u_min, v_max>>>>,
                 <<<<x + 1, y + 1, z + 1>>, <<u_max, v_max>>>>,
                 <<<<x + 1, y + 1, z - 1>>, <<u_max, v_min>>>> >>
         [] dir = "bottom" ->
              << <<<<x - 1, y - 1, z - 1>>, <<u_min, v_max>>>>,
                 <<<<x + 1, y - 1, z - 1>>, <<u_max, v_max>>>>,
                 <<<<x + 1, y - 1, z + 1>>, <<u_max, v_min>>>>,
                 <<<<x - 1, y - 1, z + 1>>, <<u_min, v_min>>>> >>

\* Mesh::extend_indices: vertex_count is read from the vertices it is handed
extend_indices(vertices, indices) ==
    LET vertex_count == Len(vertices)
    IN indices \o <<vertex_count, vertex_count + 1, vertex_count + 2,
                    vertex_count + 2, vertex_count + 3, vertex_count>>

\* A block for the top face whose condition is lost: the top quad is always emitted
VoxelFaceTopAlways(mesh, wp, voxel_properties, occluding_neighbors, dir) ==
    IF occluding_neighbors[dir] /\ dir # "top" THEN Ok(mesh)
    ELSE Let(get_coordinates(voxel_properties.textures[dir]), LAMBDA c :
             IF Panicked(c) THEN Panic
             ELSE Let(mesh.vertices \o FaceVertices(wp, dir, Unwrap(c)), LAMBDA vertices :
                      Ok([vertices |-> vertices,
                          indices |-> extend_indices(vertices, mesh.indices)])))

\* One `if !occluding_neighbors.<dir> { ... }` block of Mesh::voxel
VoxelFace(mesh, wp, voxel_properties, occluding_neighbors, dir) ==
    IF occluding_neighbors[dir] THEN Ok(mesh)
    ELSE Let(get_coordinates(voxel_properties.textures[dir]), LAMBDA c :
             IF Panicked(c) THEN Panic
             ELSE Let(mesh.vertices \o FaceVertices(wp, dir, Unwrap(c)), LAMBDA vertices :
                      Ok([vertices |-> vertices,
                          indices |-> extend_indices(vertices, mesh.indices)])))

\* The six blocks in order, from block d on
RECURSIVE VoxelFacesFrom(_, _, _, _, _)
VoxelFacesFrom(mesh, wp, voxel_properties, occluding_neighbors, d) ==
    IF d > Len(Directions) THEN Ok(mesh)
    ELSE Let(VoxelFace(mesh, wp, voxel_properties, occluding_neighbors, Directions[d]), LAMBDA r :
             IF Panicked(r) THEN Panic
             ELSE VoxelFacesFrom(Unwrap(r), wp, voxel_properties, occluding_neighbors, d + 1))

\* Mesh::voxel
MeshVoxel(wp, voxel_properties, occluding_neighbors) ==
    VoxelFacesFrom(MeshEmpty, wp, voxel_properties, occluding_neighbors, 1)

\* An iteration that advances vertex_offset before it rebases the indices
MergeStepOffsetFirst(acc, mesh) ==
    [vertices |-> acc.vertices \o mesh.vertices,
     indices |-> acc.indices \o [k \in 1..Len(mesh.indices) |->
                     mesh.indices[k] + acc.vertex_offset + Len(mesh.vertices)],
     vertex_offset |-> acc.vertex_offset + Len(mesh.vertices)]

\* An iteration that sets vertex_offset to the vertex count of its own mesh
MergeStepOffsetReset(acc, mesh) ==
    [vertices |-> acc.vertices \o mesh.vertices,
     indices |-> acc.indices \o [k \in 1..Len(mesh.indices) |-> mesh.indices[k] + acc.vertex_offset],
     vertex_offset |-> Len(mesh.vertices)]

\* One iteration of the loop of Mesh::merged (u32 arithmetic; the counts of the
\* model are far below 2^32)
MergeStep(acc, mesh) ==
    [vertices |-> acc.vertices \o mesh.vertices,
     indices |-> acc.indices \o [k \in 1..Len(mesh.indices) |-> mesh.indices[k] + acc.vertex_offset],
     vertex_offset |-> acc.vertex_offset + Len(mesh.vertices)]

\* Iterations lo..hi of the loop, in order (split in halves, which bounds the
\* depth of the evaluation and leaves the order of the iterations as it is)
RECURSIVE MergeRange(_, _, _, _)
MergeRange(acc, meshes, lo, hi) ==
    IF lo > hi THEN acc
    ELSE IF lo = hi THEN MergeStep(acc, meshes[lo])
    ELSE Let(MergeRange(acc, meshes, lo, (lo + hi) \div 2), LAMBDA a :
             MergeRange(a, meshes, ((lo + hi) \div 2) + 1, hi))

\* Mesh::merged
merged(meshes) ==
    Let(MergeRange([vertices |-> <<>>, indices |-> <<>>, vertex_offset |-> 0],
                   meshes, 1, Len(meshes)),
        LAMBDA acc : [vertices |-> acc.vertices, indices |-> acc.indices])

\* The loops of Mesh::chunk: cell i is (x outer, y middle, z inner)
ChunkCell(i) == <<i \div (CHUNK_SIZE * CHUNK_SIZE), (i \div CHUNK_SIZE) % CHUNK_SIZE, i % CHUNK_SIZE>>

\* A loop body without the is_invisible test: every voxel is meshed
VoxelMeshAtNoSkip(w, chunk, i) ==
    Let(ChunkCell(i), LAMBDA local_position :
    Let(world_position(local_position, chunk.position), LAMBDA wp :
    Let(ChunkGetVoxelType(chunk, local_position), LAMBDA voxel_type :
      IF Panicked(voxel_type) THEN Panic ELSE
    Let(get_properties(Unwrap(voxel_type)), LAMBDA voxel_properties :
      IF Panicked(voxel_properties) THEN Panic ELSE
    Let(get_occluding_neighbors(w, wp), LAMBDA occluding_neighbors :
      IF Panicked(occluding_neighbors) THEN Panic ELSE
    Let(MeshVoxel(wp, Unwrap(voxel_properties), Unwrap(occluding_neighbors)), LAMBDA m :
      IF Panicked(m) THEN Panic ELSE Ok(<<Unwrap(m)>>)))))))

\* The body of the loops of Mesh::chunk for cell i: the outcome of the pushes
\* (<<>> for a skipped voxel, <<mesh>> for a pushed one)
VoxelMeshAt(w, chunk, i) ==
    Let(ChunkCell(i), LAMBDA local_position :
    Let(world_position(local_position, chunk.position), LAMBDA wp :
    Let(ChunkGetVoxelType(chunk, local_position), LAMBDA voxel_type :
      IF Panicked(voxel_type) THEN Panic ELSE
    Let(get_properties(Unwrap(voxel_type)), LAMBDA voxel_properties :
      IF Panicked(voxel_properties) THEN Panic
      ELSE IF Unwrap(voxel_properties).is_invisible THEN Ok(<<>>) ELSE
    Let(get_occluding_neighbors(w, wp), LAMBDA occluding_neighbors :
      IF Panicked(occluding_neighbors) THEN Panic ELSE
    Let(MeshVoxel(wp, Unwrap(voxel_properties), Unwrap(occluding_neighbors)), LAMBDA m :
      IF Panicked(m) THEN Panic ELSE Ok(<<Unwrap(m)>>)))))))

\* Mesh::chunk up to the merge: voxel_meshes
VoxelMeshes(w, chunk) ==
    Let(Strict([i \in 1..(CHUNK_SIZE * CHUNK_SIZE * CHUNK_SIZE) |-> VoxelMeshAt(w, chunk, i - 1)]),
        LAMBDA pushes :
           IF \E i \in DOMAIN pushes : Panicked(pushes[i]) THEN Panic
           ELSE Let(SelectSeq(pushes, LAMBDA r : Unwrap(r) # <<>>), LAMBDA pushed :
                    Ok(Strict([k \in 1..Len(pushed) |-> Unwrap(pushed[k])[1]]))))

\* Mesh::chunk
MeshChunk(w, chunk) ==
    Let(VoxelMeshes(w, chunk), LAMBDA voxel_meshes :
        IF Panicked(voxel_meshes) THEN Panic ELSE Ok(merged(Unwrap(voxel_meshes))))

\* A filter that passes every loaded chunk, cached or not
AllLoadedChunks(w) == DOMAIN w.chunk_data

\* Mesh::world up to the commit loop: the chunks it builds
UncachedChunks(w) == {p \in DOMAIN w.chunk_data : p \notin DOMAIN w.chunk_meshes}

\* A Mesh::world that builds and never inserts what it built
MeshWorldCacheUncommitted(w) == Ok(w.chunk_meshes)

\* Mesh::world, its effect on the cache: every loaded chunk without a cache
\* entry is built against the world as it is when Mesh::world starts, then the
\* results are inserted; a panic in a build task propagates out of Mesh::world
MeshWorldCache(w) ==
    Let(Strict([p \in UncachedChunks(w) |-> MeshChunk(w, w.chunk_data[p])]), LAMBDA new_chunk_meshes :
        IF \E p \in DOMAIN new_chunk_meshes : Panicked(new_chunk_meshes[p]) THEN Panic
        ELSE Ok(Strict([p \in DOMAIN w.chunk_meshes \cup DOMAIN new_chunk_meshes |->
                          IF p \in DOMAIN new_chunk_meshes THEN Unwrap(new_chunk_meshes[p])
                          ELSE w.chunk_meshes[p]])))

\* Mesh::world up to the merge: the cache after the commit loop, read at every
\* position of chunk_positions (the keys of chunk_data); expect() panics at a
\* position without an entry
MeshWorldCommitted(w) ==
    Let(MeshWorldCache(w), LAMBDA r :
        IF Panicked(r) THEN Panic
        ELSE IF \E p \in DOMAIN w.chunk_data : p \notin DOMAIN Unwrap(r) THEN Panic
        ELSE r)

\* ----------------------------------------------------------------- actions
\* The camera's chunk positions handed to update_chunks: the origin and a step
\* along each axis, negative ones included
Origins == {<<0, 0, 0>>, <<-1, 0, 0>>, <<0, 1, 0>>, <<0, 0, -1>>}

Init ==
    /\ last_update_position = WorldNew.last_update_position
    /\ chunk_data = WorldNew.chunk_data
    /\ chunk_meshes = WorldNew.chunk_meshes
    /\ edits = 0
    /\ args = <<>>
    /\ result = None

\* world.update_chunks(origin)
UpdateChunks(origin) ==
    \E w \in {update_chunks(World, origin)} :
       /\ result = None
       /\ last_update_position' = w.last_update_position
       /\ chunk_data' = w.chunk_data
       /\ chunk_meshes' = w.chunk_meshes
       /\ UNCHANGED <<edits, args, result>>

\* Mesh::world(world), called by Renderer::update_mesh; a panic ends the
\* process (result becomes Some(Panic) and no action is enabled any more)
MeshWorld ==
    \E r \in {MeshWorldCommitted(World)} :
       /\ result = None
       /\ IF Panicked(r)
          THEN /\ result' = Some(Panic)
               /\ UNCHANGED <<last_update_position, chunk_data, chunk_meshes, edits, args>>
          ELSE /\ chunk_meshes' = Unwrap(r)
               /\ UNCHANGED <<last_update_position, chunk_data, edits, args, result>>

Next ==
    \/ \E origin \in Origins : UpdateChunks(origin)
    \/ MeshWorld

\* The world as its callers drive it: streaming passes and mesh builds
Spec == Init /\ [][Next]_vars

\* ------------------------------------------------------------------- edits
\* The cells an edit writes: two cells of the chunk and one outside its bounds
EditCells == {<<0, CHUNK_SIZE - 1, 0>>, <<CHUNK_SIZE - 1, 0, CHUNK_SIZE - 1>>,
              <<0, 0, CHUNK_SIZE - 1>>, <<0, CHUNK_SIZE, 0>>}
EditTypes == {"Air", "Stone", "Dirt"}

\* chunk.set_voxel(local_position, voxel_type) on a loaded chunk
SetVoxel(chunk_pos, lp, voxel_type) ==
    /\ edits < MaxEdits
    /\ chunk_pos \in DOMAIN chunk_data
    /\ chunk_data' = [chunk_data EXCEPT ![chunk_pos] = set_voxel(@, lp, voxel_type)]
    /\ edits' = edits + 1
    /\ UNCHANGED <<last_update_position, chunk_meshes, args, result>>

NextEdit ==
    \/ \E origin \in Origins : UpdateChunks(origin)
    \/ \E chunk_pos \in Origins, lp \in EditCells, voxel_type \in EditTypes :
          SetVoxel(chunk_pos, lp, voxel_type)

\* Streaming passes over a world whose chunks are edited between passes
SpecEdit == Init /\ [][NextEdit]_vars

\* ------------------------------------------------------ pure mesh functions
NeighborFlags == [{Directions[d] : d \in 1..Len(Directions)} -> BOOLEAN]
VisibleTypes == {t \in VoxelTypes : ~VoxelRegistryInit[t].is_invisible}
\* voxel positions on both sides of the origin
VoxelPositions == {<<0, 0, 0>>, <<-1, CHUNK_SIZE, -CHUNK_SIZE>>}

VoxelArgs ==
    {[op |-> "voxel", world_position |-> wp, voxel_type |-> voxel_type,
      occluding_neighbors |-> n] :
        wp \in VoxelPositions, voxel_type \in VisibleTypes, n \in NeighborFlags}

\* Mesh::voxel(world_position, voxel_properties, texture_atlas, occluding_neighbors)
CallMeshVoxel ==
    /\ result = None
    /\ args.op = "voxel"
    /\ result' = Some(MeshVoxel(args.world_position, VoxelRegistryInit[args.voxel_type],
                                args.occluding_neighbors))
    /\ UNCHANGED <<last_update_position, chunk_data, chunk_meshes, edits, args>>

\* The meshes handed to Mesh::merged: n <= 2 vertices (told apart by their x) and
\* at most two indices, each in 0..n (n itself lies outside the mesh)
PoolVertex(j) == <<<<j, 0, 0>>, <<0, 0>>>>
PoolIndices(n) == {<<>>} \cup {<<i>> : i \in 0..n} \cup {<<i, j>> : i \in 0..n, j \in 0..n}
MeshPool == UNION {{[vertices |-> [j \in 1..n |-> PoolVertex(j)], indices |-> ix] :
                       ix \in PoolIndices(n)} : n \in 0..2}

\* Mesh::merged(meshes)
CallMerged ==
    /\ result = None
    /\ args.op = "merged"
    /\ result' = Some(Ok(merged(args.meshes)))
    /\ UNCHANGED <<last_update_position, chunk_data, chunk_meshes, edits, args>>

\* Mesh::merged over three meshes a, b, c, flat and in groups: groups that are
\* merged first and whose results are merged again, as Mesh::world merges the
\* chunk meshes that Mesh::chunk merged from voxel meshes
MergedGroupings(a, b, c) ==
    [flat |-> merged(<<a, b, c>>),
     left |-> merged(<<merged(<<a, b>>), c>>),
     right |-> merged(<<a, merged(<<b, c>>)>>),
     chunks |-> merged(<<merged(<<a>>), merged(<<b, c>>)>>),
     chunk |-> merged(<<merged(<<a, b, c>>)>>)]

CallMergedGroupings ==
    /\ result = None
    /\ args.op = "groupings"
    /\ result' = Some(Ok(MergedGroupings(args.meshes[1], args.meshes[2], args.meshes[3])))
    /\ UNCHANGED <<last_update_position, chunk_data, chunk_meshes, edits, args>>

InitMesh ==
    /\ last_update_position = WorldNew.last_update_position
    /\ chunk_data = WorldNew.chunk_data
    /\ chunk_meshes = WorldNew.chunk_meshes
    /\ edits = 0
    /\ \/ args \in VoxelArgs
       \/ \E k \in 0..MaxMeshes : args \in [op : {"merged"}, meshes : [1..k -> MeshPool]]
       \/ args \in [op : {"groupings"}, meshes : [1..3 -> MeshPool]]
    /\ result = None

NextMesh ==
    \/ CallMeshVoxel
    \/ CallMerged
    \/ CallMergedGroupings

\* One call of a pure function (Mesh::voxel, Mesh::merged, or Mesh::merged over
\* grouped inputs) on drawn arguments
SpecMesh == InitMesh /\ [][NextMesh]_vars

\* ------------------------------------- pure chunk and position functions
\* World positions on both sides of the origin, two chunks wide each way
PositionLine == (-(2 * CHUNK_SIZE) - 1)..(2 * CHUNK_SIZE)
WorldPositions == PositionLine \X PositionLine \X PositionLine

\* Local components: inside the chunk, just past it, and past the whole array
LocalLine == {0, CHUNK_SIZE - 1, CHUNK_SIZE, CHUNK_SIZE + 1, CHUNK_SIZE * CHUNK_SIZE * CHUNK_SIZE}
LocalPositions == LocalLine \X LocalLine \X LocalLine

\* Chunks handed to the functions: generated, empty, and generated with an edit
ChunkPool == {dev_chunk(<<0, 0, 0>>), ChunkEmpty(<<0, -1, 0>>),
              set_voxel(dev_chunk(<<-1, 0, 0>>), <<0, 0, 0>>, "Stone")}

\* WorldPosition::chunk_position
CallChunkPosition ==
    /\ result = None
    /\ args.op = "chunk_position"
    /\ result' = Some(Ok(chunk_position(args.world_position)))
    /\ UNCHANGED <<last_update_position, chunk_data, chunk_meshes, edits, args>>

\* WorldPosition::local_chunk_position
CallLocalChunkPosition ==
    /\ result = None
    /\ args.op = "local_chunk_position"
    /\ result' = Some(Ok(local_chunk_position(args.world_position)))
    /\ UNCHANGED <<last_update_position, chunk_data, chunk_meshes, edits, args>>

\* (c, l) = P.local_chunk_position() followed by l.world_position(c)
CallWorldPosition ==
    /\ result = None
    /\ args.op = "world_position"
    /\ \E cl \in {local_chunk_position(args.world_position)} :
          result' = Some(Ok(world_position(cl[2], cl[1])))
    /\ UNCHANGED <<last_update_position, chunk_data, chunk_meshes, edits, args>>

\* chunk.get_voxel_type(local_position)
CallChunkGetVoxelType ==
    /\ result = None
    /\ args.op = "get_voxel_type"
    /\ result' = Some(ChunkGetVoxelType(args.chunk, args.local_position))
    /\ UNCHANGED <<last_update_position, chunk_data, chunk_meshes, edits, args>>

\* chunk.set_voxel(local_position, voxel_type): the chunk after the call
CallSetVoxel ==
    /\ result = None
    /\ args.op = "set_voxel"
    /\ result' = Some(Ok(set_voxel(args.chunk, args.local_position, args.voxel_type)))
    /\ UNCHANGED <<last_update_position, chunk_data, chunk_meshes, edits, args>>

\* chunk.set_y_slice(y, voxel_type): the chunk after the call
CallSetYSlice ==
    /\ result = None
    /\ args.op = "set_y_slice"
    /\ result' = Some(Ok(set_y_slice(args.chunk, args.y, args.voxel_type)))
    /\ UNCHANGED <<last_update_position, chunk_data, chunk_meshes, edits, args>>

InitChunk ==
    /\ last_update_position = WorldNew.last_update_position
    /\ chunk_data = WorldNew.chunk_data
    /\ chunk_meshes = WorldNew.chunk_meshes
    /\ edits = 0
    /\ \/ args \in [op : {"chunk_position", "local_chunk_position", "world_position"},
                    world_position : WorldPositions]
       \/ args \in [op : {"get_voxel_type"}, chunk : ChunkPool, local_position : LocalPositions]
       \/ args \in [op : {"set_voxel"}, chunk : ChunkPool, local_position : LocalPositions,
                    voxel_type : VoxelTypes]
       \/ args \in [op : {"set_y_slice"}, chunk : ChunkPool, y : LocalLine, voxel_type : VoxelTypes]
    /\ result = None

NextChunk ==
    \/ CallChunkPosition
    \/ CallLocalChunkPosition
    \/ CallWorldPosition
    \/ CallChunkGetVoxelType
    \/ CallSetVoxel
    \/ CallSetYSlice

\* One call of a pure function of WorldPosition, LocalChunkPosition or Chunk on
\* drawn arguments
SpecChunk == InitChunk /\ [][NextChunk]_vars

\* ------------------------------------------------------ writes to a chunk
\* The cells, slices, ranges and types written: cells at the corners of the
\* chunk and past it, slices at the bottom, the top and past it, ranges that are
\* whole, that run past the top, and that are empty
ChunkOpCells == {<<0, 0, 0>>, <<CHUNK_SIZE - 1, 0, 0>>, <<0, CHUNK_SIZE - 1, 0>>,
                 <<0, 0, CHUNK_SIZE - 1>>, <<CHUNK_SIZE - 1, CHUNK_SIZE - 1, CHUNK_SIZE - 1>>,
                 <<CHUNK_SIZE, 0, 0>>, <<0, CHUNK_SIZE, 0>>}
ChunkOpSlices == {0, CHUNK_SIZE - 1, CHUNK_SIZE}
ChunkOpRanges == {<<0, CHUNK_SIZE - 1>>, <<1, CHUNK_SIZE>>, <<1, 0>>}
ChunkOpTypes == {"Air", "Stone"}

\* Chunk::empty(position)
ChunkNewEmpty ==
    /\ args = <<>>
    /\ args' = [op |-> "empty", chunk |-> ChunkEmpty(<<0, 0, 0>>)]
    /\ UNCHANGED <<last_update_position, chunk_data, chunk_meshes, edits, result>>

\* Chunk::dev_chunk(position)
ChunkNewDev ==
    /\ args = <<>>
    /\ args' = [op |-> "dev_chunk", chunk |-> dev_chunk(<<0, -1, 0>>)]
    /\ UNCHANGED <<last_update_position, chunk_data, chunk_meshes, edits, result>>

\* chunk.set_voxel(local_position, voxel_type) on the chunk of args
ChunkSetVoxel(lp, voxel_type) ==
    /\ args # <<>>
    /\ edits < MaxChunkOps
    /\ args' = [op |-> "set_voxel", chunk |-> set_voxel(args.chunk, lp, voxel_type),
                local_position |-> lp, voxel_type |-> voxel_type]
    /\ edits' = edits + 1
    /\ UNCHANGED <<last_update_position, chunk_data, chunk_meshes, result>>

\* chunk.set_y_slice(y, voxel_type) on the chunk of args
ChunkSetYSlice(y, voxel_type) ==
    /\ args # <<>>
    /\ edits < MaxChunkOps
    /\ args' = [op |-> "set_y_slice", chunk |-> set_y_slice(args.chunk, y, voxel_type),
                y |-> y, voxel_type |-> voxel_type]
    /\ edits' = edits + 1
    /\ UNCHANGED <<last_update_position, chunk_data, chunk_meshes, result>>

\* chunk.set_y_range(lo..=hi, voxel_type) on the chunk of args
ChunkSetYRange(lo, hi, voxel_type) ==
    /\ args # <<>>
    /\ edits < MaxChunkOps
    /\ args' = [op |-> "set_y_range", chunk |-> set_y_range(args.chunk, lo, hi, voxel_type),
                y_range |-> <<lo, hi>>, voxel_type |-> voxel_type]
    /\ edits' = edits + 1
    /\ UNCHANGED <<last_update_position, chunk_data, chunk_meshes, result>>

NextChunkOps ==
    \/ ChunkNewEmpty
    \/ ChunkNewDev
    \/ \E lp \in ChunkOpCells, voxel_type \in ChunkOpTypes : ChunkSetVoxel(lp, voxel_type)
    \/ \E y \in ChunkOpSlices, voxel_type \in ChunkOpTypes : ChunkSetYSlice(y, voxel_type)
    \/ \E r \in ChunkOpRanges, voxel_type \in ChunkOpTypes : ChunkSetYRange(r[1], r[2], voxel_type)

\* A chunk from Chunk::empty or Chunk::dev_chunk and the writes made to it
SpecChunkOps == Init /\ [][NextChunkOps]_vars

\* --------------------------------------------- determine_chunks_in_range
\* Origins handed to determine_chunks_in_range: two chunks either side of
\* (0, 0, 0) on every axis
RangeOriginLine == -2..2
RangeOrigins == RangeOriginLine \X RangeOriginLine \X RangeOriginLine

\* World::determine_chunks_in_range(origin_chunk_position)
CallDetermineChunksInRange ==
    /\ result = None
    /\ args.op = "determine_chunks_in_range"
    /\ result' = Some(Ok(determine_chunks_in_range(args.origin)))
    /\ UNCHANGED <<last_update_position, chunk_data, chunk_meshes, edits, args>>

InitRange ==
    /\ last_update_position = WorldNew.last_update_position
    /\ chunk_data = WorldNew.chunk_data
    /\ chunk_meshes = WorldNew.chunk_meshes
    /\ edits = 0
    /\ args \in [op : {"determine_chunks_in_range"}, origin : RangeOrigins]
    /\ result = None

NextRange == CallDetermineChunksInRange

\* One call of determine_chunks_in_range on a drawn origin
SpecRange == InitRange /\ [][NextRange]_vars

\* ------------------------------------------------------------- Mesh::chunk
\* Chunks handed to Mesh::chunk: at the origin and one step along each axis,
\* all Air, generated, and generated with its top corner voxel removed
MeshChunkPositions ==
    {<<0, 0, 0>>, <<1, 0, 0>>, <<-1, 0, 0>>, <<0, 1, 0>>, <<0, -1, 0>>, <<0, 0, 1>>, <<0, 0, -1>>}
MeshChunkPool ==
    UNION {{ChunkEmpty(p), dev_chunk(p), set_voxel(dev_chunk(p), <<0, CHUNK_SIZE - 1, 0>>, "Air")} :
              p \in MeshChunkPositions}

\* Mesh::chunk(world, chunk, voxel_registry, texture_atlas) against the world as it is
CallMeshChunk(chunk) ==
    /\ result = None
    /\ args' = [op |-> "chunk", chunk |-> chunk]
    /\ result' = Some(MeshChunk(World, chunk))
    /\ UNCHANGED <<last_update_position, chunk_data, chunk_meshes, edits>>

\* Registry values handed to get_properties: the one VoxelRegistry::init builds
\* and, for each type, that registry without the type's entry
Registries ==
    {VoxelRegistryInit}
    \cup {[t \in VoxelTypes \ {missing} |-> VoxelRegistryInit[t]] : missing \in VoxelTypes}

\* registry.get_properties(voxel_type)
CallGetProperties(registry, voxel_type) ==
    /\ result = None
    /\ args' = [op |-> "get_properties", registry |-> registry, voxel_type |-> voxel_type]
    /\ result' = Some(RegistryGetProperties(registry, voxel_type))
    /\ UNCHANGED <<last_update_position, chunk_data, chunk_meshes, edits>>

NextMeshChunk ==
    \/ \E origin \in Origins : UpdateChunks(origin)
    \/ \E chunk \in MeshChunkPool : CallMeshChunk(chunk)
    \/ \E registry \in Registries, voxel_type \in VoxelTypes : CallGetProperties(registry, voxel_type)

\* Streaming passes, then one call of Mesh::chunk on a drawn chunk or of
\* get_properties on a drawn registry
SpecMeshChunk == Init /\ [][NextMeshChunk]_vars

\* ------------------------------------------------------------- App::update
\* A frame that runs the streaming pass and leaves the mesh as it is
app_update_without_rebuild(w, camera_chunk) ==
    IF w.last_update_position # Some(camera_chunk)
    THEN Ok(update_chunks(w, camera_chunk))
    ELSE Ok(w)

\* The body of App::update on the world, camera_chunk being the camera's chunk position
\* after renderer.update(): the pass and the rebuild, or nothing
app_update(w, camera_chunk) ==
    IF w.last_update_position # Some(camera_chunk)
    THEN Let(update_chunks(w, camera_chunk), LAMBDA streamed :
         Let(MeshWorldCommitted(streamed), LAMBDA r :
             IF Panicked(r) THEN Panic ELSE Ok([streamed EXCEPT !.chunk_meshes = Unwrap(r)])))
    ELSE Ok(w)

\* App::update, one frame; args keeps what the frame compared: the camera's chunk
\* position and the value world.last_update_position() returned. A panic ends
\* the process (result becomes Some(Panic) and no frame follows)
AppUpdate(camera_chunk) ==
    \E r \in {app_update(World, camera_chunk)} :
       /\ result = None
       /\ args' = [op |-> "update", camera_chunk |-> camera_chunk,
                   last_update_position |-> last_update_position]
       /\ IF Panicked(r)
          THEN /\ result' = Some(Panic)
               /\ UNCHANGED <<last_update_position, chunk_data, chunk_meshes, edits>>
          ELSE /\ last_update_position' = Unwrap(r).last_update_position
               /\ chunk_data' = Unwrap(r).chunk_data
               /\ chunk_meshes' = Unwrap(r).chunk_meshes
               /\ UNCHANGED <<edits, result>>

NextApp == \E camera_chunk \in Origins : AppUpdate(camera_chunk)

\* The frames of the application, the camera moving between chunks or staying
SpecApp == Init /\ [][NextApp]_vars

\* ------------------------------------------- a frame of App::update in steps
\* The camera's chunk positions in SpecFrame
FrameOrigins == {<<0, 0, 0>>, <<0, 1, 0>>}

\* p comes before q in the order of (x, y, z)
KeyLess(p, q) ==
    \/ p[1] < q[1]
    \/ p[1] = q[1] /\ p[2] < q[2]
    \/ p[1] = q[1] /\ p[2] = q[2] /\ p[3] < q[3]

\* The keys in ascending order: the i-th has i - 1 keys before it
KeysAscending(keys) ==
    [i \in 1..Cardinality(keys) |->
        CHOOSE p \in keys : Cardinality({q \in keys : KeyLess(q, p)}) = i - 1]

Reverse(s) == Let(s, LAMBDA v : [i \in 1..Len(v) |-> v[Len(v) + 1 - i]])

\* HashMap::keys: the iteration order of a HashMap is unspecified and differs
\* between runs (RandomState). The orders drawn here are two of the orders an
\* iteration can yield: ascending and descending in (x, y, z).
KeyOrders(keys) == Let(KeysAscending(keys), LAMBDA ascending : {ascending, Reverse(ascending)})

\* into_par_iter().map(..).collect(): the tasks, one for each uncached position,
\* run on the threads of the rayon pool, and the order in which they run is
\* the pool's. A schedule is the order in which the n tasks run; the schedules
\* drawn here are: in the order of the input (one thread), from the last to
\* the first, and two threads that take turns, one on each half of the input
InOrder(n) == [k \in 1..n |-> k]
LastFirst(n) == [k \in 1..n |-> n + 1 - k]
TakingTurns(n) ==
    [k \in 1..n |-> IF k % 2 = 1 THEN (k + 1) \div 2 ELSE ((n + 1) \div 2) + (k \div 2)]
Schedules(n) == {InOrder(n), LastFirst(n), TakingTurns(n)}

\* The locals of the frame: pc is the phase, frames the number of frames that
\* ran a pass, the others are the locals of update_chunks and Mesh::world of the
\* same names (schedule is the order in which the tasks of the parallel
\* map run, built the number of them that are over, new_chunk_meshes[i] the
\* result of the task of uncached_chunks[i], committed the number of
\* iterations of the commit loop)
FrameLocals(pc, frames) ==
    [op |-> "frame", pc |-> pc, frames |-> frames,
     chunks_in_range |-> <<>>, chunk_positions |-> <<>>, uncached_chunks |-> <<>>,
     schedule |-> <<>>, built |-> 0, new_chunk_meshes |-> <<>>, committed |-> 0]

\* The task that runs next, 0 when all are over
NextTask(f) == IF f.built < Len(f.schedule) THEN f.schedule[f.built + 1] ELSE 0

\* A task that inserts its mesh into the cache as soon as it is built
build_task_committing(w, f) ==
    Let(NextTask(f), LAMBDA i :
    Let(f.uncached_chunks[i], LAMBDA chunk_pos :
    Let(MeshChunk(w, IF chunk_pos \in DOMAIN w.chunk_data THEN w.chunk_data[chunk_pos]
                     ELSE ChunkEmpty(chunk_pos)), LAMBDA chunk_mesh :
        IF Panicked(chunk_mesh) THEN Panic
        ELSE Ok([world |-> [w EXCEPT !.chunk_meshes = MapInsert(@, chunk_pos, Unwrap(chunk_mesh))],
                 locals |-> [f EXCEPT !.built = @ + 1,
                                     !.new_chunk_meshes = (i :> Unwrap(chunk_mesh)) @@ @]]))))

\* A task that takes its chunk out of chunk_data while it builds
build_task_taking_chunk(w, f) ==
    Let(NextTask(f), LAMBDA i :
    Let(f.uncached_chunks[i], LAMBDA chunk_pos :
    Let(MeshChunk(w, IF chunk_pos \in DOMAIN w.chunk_data THEN w.chunk_data[chunk_pos]
                     ELSE ChunkEmpty(chunk_pos)), LAMBDA chunk_mesh :
        IF Panicked(chunk_mesh) THEN Panic
        ELSE Ok([world |-> [w EXCEPT !.chunk_data =
                                 Strict([p \in DOMAIN w.chunk_data \ {chunk_pos} |-> w.chunk_data[p]])],
                 locals |-> [f EXCEPT !.built = @ + 1,
                                     !.new_chunk_meshes = (i :> Unwrap(chunk_mesh)) @@ @]]))))

\* The closure of the parallel map of Mesh::world for the task that runs next:
\* it reads the world and yields (chunk_position, chunk_mesh); the world is
\* returned as it was
build_task(w, f) ==
    Let(NextTask(f), LAMBDA i :
    Let(f.uncached_chunks[i], LAMBDA chunk_pos :
    Let(MeshChunk(w, IF chunk_pos \in DOMAIN w.chunk_data THEN w.chunk_data[chunk_pos]
                     ELSE ChunkEmpty(chunk_pos)), LAMBDA chunk_mesh :
        IF Panicked(chunk_mesh) THEN Panic
        ELSE Ok([world |-> w,
                 locals |-> [f EXCEPT !.built = @ + 1,
                                     !.new_chunk_meshes = (i :> Unwrap(chunk_mesh)) @@ @]]))))

\* A load step that hands control back to the eviction
after_load_restarting(f) == [f EXCEPT !.pc = "unload"]

\* The locals once load_in_range_chunks has returned: update_chunks is over
\* and Mesh::world begins
after_load(f) == [f EXCEPT !.pc = "collect", !.chunks_in_range = <<>>]

InitFrame ==
    /\ last_update_position = WorldNew.last_update_position
    /\ chunk_data = WorldNew.chunk_data
    /\ chunk_meshes = WorldNew.chunk_meshes
    /\ edits = 0
    /\ args = FrameLocals("idle", 0)
    /\ result = None

\* App::update with the camera in camera_chunk, up to the sort of
\* determine_chunks_in_range: the comparison, then update_chunks records the
\* origin and computes chunks_in_range
StartPass(camera_chunk) ==
    /\ result # Some(Panic)
    /\ args.pc \in {"idle", "done"}
    /\ args.frames < MaxFrames
    /\ last_update_position # Some(camera_chunk)
    /\ last_update_position' = Some(camera_chunk)
    /\ args' = [FrameLocals("unload", args.frames + 1) EXCEPT
                  !.chunks_in_range = determine_chunks_in_range(camera_chunk)]
    /\ result' = None
    /\ UNCHANGED <<chunk_data, chunk_meshes, edits>>

\* unload_out_of_range_chunks
Unload ==
    /\ result = None
    /\ args.pc = "unload"
    /\ chunk_data' = unload_out_of_range_chunks(chunk_data, SeqToSet(args.chunks_in_range))
    /\ args' = [args EXCEPT !.pc = "load"]
    /\ UNCHANGED <<last_update_position, chunk_meshes, edits, result>>

\* load_in_range_chunks
Load ==
    /\ result = None
    /\ args.pc = "load"
    /\ chunk_data' = load_in_range_chunks(chunk_data, args.chunks_in_range)
    /\ args' = after_load(args)
    /\ UNCHANGED <<last_update_position, chunk_meshes, edits, result>>

\* Mesh::world: chunk_positions and uncached_chunks, and the schedule the pool
\* will follow
CollectPositions ==
    /\ result = None
    /\ args.pc = "collect"
    /\ \E order \in KeyOrders(DOMAIN chunk_data) :
          \E uncached \in {SelectSeq(order, LAMBDA p : p \notin DOMAIN chunk_meshes)} :
            \E schedule \in Schedules(Len(uncached)) :
                args' = [args EXCEPT !.pc = "build",
                                     !.chunk_positions = order,
                                     !.uncached_chunks = uncached,
                                     !.schedule = schedule]
    /\ UNCHANGED <<last_update_position, chunk_data, chunk_meshes, edits, result>>

\* Mesh::world: one task of the parallel map
BuildTask ==
    /\ result = None
    /\ args.pc = "build"
    /\ NextTask(args) # 0
    /\ \E r \in {build_task(World, args)} :
          IF Panicked(r)
          THEN /\ result' = Some(Panic)
               /\ UNCHANGED <<last_update_position, chunk_data, chunk_meshes, edits, args>>
          ELSE /\ args' = Unwrap(r).locals
               /\ last_update_position' = Unwrap(r).world.last_update_position
               /\ chunk_data' = Unwrap(r).world.chunk_data
               /\ chunk_meshes' = Unwrap(r).world.chunk_meshes
               /\ UNCHANGED <<edits, result>>

\* Mesh::world: collect() of the parallel map returns once every task is over
JoinBuild ==
    /\ result = None
    /\ args.pc = "build"
    /\ NextTask(args) = 0
    /\ args' = [args EXCEPT !.pc = "commit"]
    /\ UNCHANGED <<last_update_position, chunk_data, chunk_meshes, edits, result>>

\* Mesh::world: one iteration of the commit loop
Commit ==
    /\ result = None
    /\ args.pc = "commit"
    /\ args.committed < Len(args.uncached_chunks)
    /\ chunk_meshes' = MapInsert(chunk_meshes, args.uncached_chunks[args.committed + 1],
                                  args.new_chunk_meshes[args.committed + 1])
    /\ args' = [args EXCEPT !.committed = @ + 1]
    /\ UNCHANGED <<last_update_position, chunk_data, edits, result>>

\* Mesh::world: the lookups of all_chunk_meshes and the merge; the frame is over
MergeAll ==
    /\ result = None
    /\ args.pc = "commit"
    /\ args.committed = Len(args.uncached_chunks)
    /\ IF \E i \in 1..Len(args.chunk_positions) : args.chunk_positions[i] \notin DOMAIN chunk_meshes
       THEN /\ result' = Some(Panic)
            /\ UNCHANGED args
       ELSE /\ \E all_chunk_meshes \in {[i \in 1..Len(args.chunk_positions) |->
                                              chunk_meshes[args.chunk_positions[i]]]} :
                  result' = Some(Ok(merged(all_chunk_meshes)))
            /\ args' = FrameLocals("done", args.frames)
    /\ UNCHANGED <<last_update_position, chunk_data, chunk_meshes, edits>>

\* The steps of a frame that has begun
FrameSteps ==
    \/ Unload
    \/ Load
    \/ CollectPositions
    \/ BuildTask
    \/ JoinBuild
    \/ Commit
    \/ MergeAll

NextFrame ==
    \/ \E camera_chunk \in FrameOrigins : StartPass(camera_chunk)
    \/ FrameSteps

\* The frames of App::update that run a pass, in the steps of update_chunks and
\* Mesh::world
SpecFrame == InitFrame /\ [][NextFrame]_vars

\* App::update calls update_chunks and Mesh::world on its own thread and nothing
\* suspends them: a step of a frame that has begun is taken
SpecFrameFair == SpecFrame /\ WF_vars(FrameSteps)

\* =================================================================== properties
\* The radius predicate: chunk position p is within render range of origin
InRadius(p, origin) ==
    /\ (p[1] - origin[1]) * (p[1] - origin[1]) + (p[3] - origin[3]) * (p[3] - origin[3])
          <= RENDER_DISTANCE_XZ * RENDER_DISTANCE_XZ
    /\ p[2] - origin[2] <= RENDER_DISTANCE_Y
    /\ origin[2] - p[2] <= RENDER_DISTANCE_Y

\* The target set of origin: every chunk position that satisfies the radius predicate
TargetSet(origin) ==
    {p \in ((origin[1] - RENDER_DISTANCE_XZ - 1)..(origin[1] + RENDER_DISTANCE_XZ + 1))
          \X ((origin[2] - RENDER_DISTANCE_Y - 1)..(origin[2] + RENDER_DISTANCE_Y + 1))
          \X ((origin[3] - RENDER_DISTANCE_XZ - 1)..(origin[3] + RENDER_DISTANCE_XZ + 1)) :
        InRadius(p, origin)}

\* C1: whenever a call of update_chunks returns, every key of the mesh cache
\* (chunk_meshes) is a key of chunk_data: the pass that evicts a chunk also
\* removes its cache entry.
C1_MeshCacheWithinChunkData ==
    [][(\E origin \in Origins : UpdateChunks(origin))
          => (DOMAIN chunk_meshes' \subseteq DOMAIN chunk_data')]_vars

\* C2: after update_chunks(origin) has returned, every key of chunk_data
\* satisfies the radius predicate relative to origin.
C2_LoadedWithinRadius ==
    last_update_position # None =>
        \A p \in DOMAIN chunk_data : InRadius(p, last_update_position[1])

\* C2 witness: a pass has evicted a chunk that an earlier pass had loaded and
\* Mesh::world had built
C2_Evicted ==
    /\ last_update_position # None
    /\ \E p \in DOMAIN chunk_meshes :
          p \notin DOMAIN chunk_data /\ ~InRadius(p, last_update_position[1])

\* C3: after any sequence of update_chunks calls the loaded key set is exactly
\* the target set of the most recent origin.
C3_LoadedIsTargetSet ==
    last_update_position # None =>
        DOMAIN chunk_data = TargetSet(last_update_position[1])

\* C3 witness: the latest pass, at origin (-1, 0, 0), followed a pass at another
\* origin: chunk (1, 0, 0) was loaded and built then, and (-2, 0, 0) is loaded now
C3_LastOriginWins ==
    /\ last_update_position = Some(<<-1, 0, 0>>)
    /\ <<1, 0, 0>> \in DOMAIN chunk_meshes
    /\ <<-2, 0, 0>> \in DOMAIN chunk_data

\* C4: in every reachable world and for every origin, a second update_chunks(origin)
\* in a row leaves the loaded chunks, their contents and the mesh cache as the
\* first call left them.
C4_StreamingIdempotent ==
    \A origin \in Origins :
        \E once \in {update_chunks(World, origin)} :
            \E twice \in {update_chunks(once, origin)} :
                /\ DOMAIN twice.chunk_data = DOMAIN once.chunk_data
                /\ twice.chunk_data = once.chunk_data
                /\ twice.chunk_meshes = once.chunk_meshes

\* C4 witness: a world with a non-empty mesh cache in which a pass at some origin
\* both evicts and loads chunks
C4_PassChangesWorld ==
    /\ chunk_meshes # <<>>
    /\ \E origin \in Origins :
          /\ DOMAIN chunk_data \ TargetSet(origin) # {}
          /\ TargetSet(origin) \ DOMAIN chunk_data # {}

\* C5: a step of update_chunks(origin) (the steps of SpecEdit that leave edits as
\* it is) leaves every chunk that was loaded before the call and is within the
\* target set of origin loaded, with the voxels it had: an edited chunk is not
\* regenerated.
C5_InRangeChunksUntouched ==
    [][(\E origin \in Origins : last_update_position' = Some(origin) /\ edits' = edits)
          => \A p \in DOMAIN chunk_data :
                InRadius(p, last_update_position'[1])
                    => p \in DOMAIN chunk_data' /\ chunk_data'[p] = chunk_data[p]]_vars

\* C5 witness: a loaded chunk holds an edit (it differs from the generated
\* terrain) and is within the target set of an origin other than the last one
C5_EditedChunkInRange ==
    \E p \in DOMAIN chunk_data :
        /\ chunk_data[p] # dev_chunk(p)
        /\ \E origin \in Origins :
              Some(origin) # last_update_position /\ InRadius(p, origin)

\* The chunk that owns world position wp: on each axis the chunk coordinate c
\* with c * CHUNK_SIZE <= v < (c + 1) * CHUNK_SIZE
OwningCoordinate(v) ==
    CHOOSE c \in ((-RENDER_DISTANCE_XZ - RENDER_DISTANCE_Y - 4)..(RENDER_DISTANCE_XZ + RENDER_DISTANCE_Y + 4)) :
        c * CHUNK_SIZE <= v /\ v < (c + 1) * CHUNK_SIZE
OwningChunk(wp) == <<OwningCoordinate(wp[1]), OwningCoordinate(wp[2]), OwningCoordinate(wp[3])>>

\* World positions queried: lines along each axis through the voxels around the
\* origin, reaching past the loaded region on both sides
QueryLineXZ == (-(RENDER_DISTANCE_XZ + 3) * CHUNK_SIZE)..((RENDER_DISTANCE_XZ + 3) * CHUNK_SIZE - 1)
QueryLineY == (-(RENDER_DISTANCE_Y + 3) * CHUNK_SIZE)..((RENDER_DISTANCE_Y + 3) * CHUNK_SIZE - 1)
QueryPositions ==
    {<<x, b, c>> : x \in QueryLineXZ, b \in {-1, 0}, c \in {-1, 0}}
    \cup {<<a, y, c>> : a \in {-1, 0}, y \in QueryLineY, c \in {-1, 0}}
    \cup {<<a, b, z>> : a \in {-1, 0}, b \in {-1, 0}, z \in QueryLineXZ}

\* C6: for a world position whose owning chunk is not loaded, get_voxel_type
\* returns Air and get_is_occluding returns false, without a panic.
C6_UnloadedIsAir ==
    \A wp \in QueryPositions :
        OwningChunk(wp) \notin DOMAIN chunk_data =>
            /\ get_voxel_type(World, wp) = Ok("Air")
            /\ get_is_occluding(World, wp) = Ok(FALSE)

\* C6 witness: chunks are loaded, and a queried position at a negative
\* coordinate lies in a chunk that is not loaded, next to one that is
C6_QueryPastLoadedRegion ==
    /\ chunk_data # <<>>
    /\ \E wp \in QueryPositions :
          /\ wp[1] < 0
          /\ OwningChunk(wp) \notin DOMAIN chunk_data
          /\ OwningChunk(<<wp[1] + 1, wp[2], wp[3]>>) \in DOMAIN chunk_data

\* The neighbour of world position wp in direction dir
Neighbour(wp, dir) ==
    CASE dir = "front" -> <<wp[1], wp[2], wp[3] + 1>>
      [] dir = "back" -> <<wp[1], wp[2], wp[3] - 1>>
      [] dir = "right" -> <<wp[1] + 1, wp[2], wp[3]>>
      [] dir = "left" -> <<wp[1] - 1, wp[2], wp[3]>>
      [] dir = "top" -> <<wp[1], wp[2] + 1, wp[3]>>
      [] dir = "bottom" -> <<wp[1], wp[2] - 1, wp[3]>>

\* Mesh mesh holds the quad: four vertices in a row, starting at a multiple of four
HasQuad(mesh, quad) ==
    \E f \in 0..((Len(mesh.vertices) \div 4) - 1) :
        \A j \in 1..4 : mesh.vertices[4 * f + j] = quad[j]

\* The quad of the face of the voxel at local cell lp of the chunk at p, in direction dir
FaceQuad(data, p, lp, dir) ==
    FaceVertices(<<lp[1] + p[1] * CHUNK_SIZE, lp[2] + p[2] * CHUNK_SIZE, lp[3] + p[3] * CHUNK_SIZE>>,
                 dir,
                 TextureAtlas[VoxelRegistryInit[VoxelType[data[p].voxels[index(lp[1], lp[2], lp[3]) + 1] + 1]].textures[dir]])

Cells == (0..(CHUNK_SIZE - 1)) \X (0..(CHUNK_SIZE - 1)) \X (0..(CHUNK_SIZE - 1))

\* The faces Mesh::chunk owes the chunk at p: <<cell, direction>> of each visible
\* voxel whose neighbour in that direction lies in a chunk that is not loaded
OpenBoundaryFaces(data, p) ==
    {f \in Cells \X SeqToSet(Directions) :
        /\ data[p].voxels[index(f[1][1], f[1][2], f[1][3]) + 1] # 0
        /\ OwningChunk(Neighbour(<<f[1][1] + p[1] * CHUNK_SIZE, f[1][2] + p[2] * CHUNK_SIZE,
                                   f[1][3] + p[3] * CHUNK_SIZE>>, f[2])) \notin DOMAIN data}

\* C7: every mesh that a step of Mesh::world builds with Mesh::chunk holds, for each
\* visible voxel of the chunk whose neighbour in a direction lies in a chunk
\* that is not loaded, the quad of the face in that direction.
C7_UnloadedNeighbourFaceEmitted ==
    [][\A p \in DOMAIN chunk_meshes' \ DOMAIN chunk_meshes :
          \A f \in OpenBoundaryFaces(chunk_data, p) :
              HasQuad(chunk_meshes'[p], FaceQuad(chunk_data, p, f[1], f[2]))]_vars

\* C7 witness: for each of the six directions, the mesh of a loaded chunk with a
\* negative coordinate is built, the chunk has a visible voxel whose neighbour in
\* that direction lies in a chunk that is not loaded, and the mesh holds that face
C7_NegativeBoundaryBuilt ==
    \A dir \in SeqToSet(Directions) :
        \E p \in DOMAIN chunk_meshes \cap DOMAIN chunk_data :
            /\ p[1] < 0 \/ p[2] < 0 \/ p[3] < 0
            /\ \E f \in OpenBoundaryFaces(chunk_data, p) :
                  f[2] = dir /\ HasQuad(chunk_meshes[p], FaceQuad(chunk_data, p, f[1], f[2]))

\* The number of neighbour flags that are false
OpenFaces(occluding_neighbors) ==
    Cardinality({d \in DOMAIN occluding_neighbors : ~occluding_neighbors[d]})

\* the call of Mesh::voxel is over
VoxelReturned == args # <<>> /\ args.op = "voxel" /\ result # None

\* C8: Mesh::voxel returns a mesh of 4 * k vertices and 6 * k indices, k being the
\* number of neighbour flags that are false (0 and 0 when all six occlude, 24
\* and 36 when none does).
C8_QuadPerOpenFace ==
    VoxelReturned =>
        /\ ~Panicked(result[1])
        /\ Len(Unwrap(result[1]).vertices) = 4 * OpenFaces(args.occluding_neighbors)
        /\ Len(Unwrap(result[1]).indices) = 6 * OpenFaces(args.occluding_neighbors)

\* C8 witness: a call at a negative position with three faces open has returned
C8_ThreeFacesOpen ==
    /\ VoxelReturned
    /\ args.world_position[1] < 0
    /\ OpenFaces(args.occluding_neighbors) = 3
    /\ ~args.occluding_neighbors["bottom"]

\* C9: every index of a mesh returned by Mesh::voxel is at least 0 and less
\* than the vertex count of that mesh, and the six indices of face f (0-based,
\* in emission order) reference exactly the four vertices 4f..4f+3 of that face.
C9_IndicesReferenceOwnFace ==
    (VoxelReturned /\ ~Panicked(result[1])) =>
        \E mesh \in {Unwrap(result[1])} :
            /\ \A k \in 1..Len(mesh.indices) :
                  0 <= mesh.indices[k] /\ mesh.indices[k] < Len(mesh.vertices)
            /\ \A f \in 0..((Len(mesh.indices) \div 6) - 1) :
                  {mesh.indices[6 * f + j] : j \in 1..6} = (4 * f)..(4 * f + 3)

\* The vertices and the indices of the inputs before input i (1-based)
RECURSIVE VerticesBefore(_, _)
VerticesBefore(meshes, i) ==
    IF i <= 1 THEN 0 ELSE VerticesBefore(meshes, i - 1) + Len(meshes[i - 1].vertices)
RECURSIVE IndicesBefore(_, _)
IndicesBefore(meshes, i) ==
    IF i <= 1 THEN 0 ELSE IndicesBefore(meshes, i - 1) + Len(meshes[i - 1].indices)

\* every index of mesh references a vertex of mesh
IndicesInRange(mesh) ==
    \A k \in 1..Len(mesh.indices) : mesh.indices[k] \in 0..(Len(mesh.vertices) - 1)

\* the call of Mesh::merged is over
MergedReturned == args # <<>> /\ args.op = "merged" /\ result # None

\* C10: Mesh::merged returns the vertices of the inputs in input order and the
\* indices of the inputs in input order, each index of input i increased by the
\* number of vertices of the inputs before i; the counts are the sums; when every
\* input's indices are within its own vertices, each output index of input i
\* references a vertex that input i contributed.
C10_MergedRebasesIndices ==
    MergedReturned =>
        \E meshes \in {args.meshes}, out \in {Unwrap(result[1])} :
            /\ Len(out.vertices) = VerticesBefore(meshes, Len(meshes) + 1)
            /\ Len(out.indices) = IndicesBefore(meshes, Len(meshes) + 1)
            /\ \A i \in 1..Len(meshes) :
                  /\ \A j \in 1..Len(meshes[i].vertices) :
                        out.vertices[VerticesBefore(meshes, i) + j] = meshes[i].vertices[j]
                  /\ \A k \in 1..Len(meshes[i].indices) :
                        out.indices[IndicesBefore(meshes, i) + k]
                            = meshes[i].indices[k] + VerticesBefore(meshes, i)
            /\ (\A i \in 1..Len(meshes) : IndicesInRange(meshes[i])) =>
                  \A i \in 1..Len(meshes) : \A k \in 1..Len(meshes[i].indices) :
                      out.indices[IndicesBefore(meshes, i) + k]
                          \in VerticesBefore(meshes, i)..(VerticesBefore(meshes, i + 1) - 1)

\* C10 witness: two meshes with vertices and in-range indices have been merged
C10_TwoMeshesMerged ==
    /\ MergedReturned
    /\ Len(args.meshes) = 2
    /\ \A i \in 1..2 :
          /\ Len(args.meshes[i].vertices) = 2
          /\ Len(args.meshes[i].indices) = 2
          /\ IndicesInRange(args.meshes[i])

\* the calls of Mesh::merged over the groupings of three meshes are over
GroupingsReturned == args # <<>> /\ args.op = "groupings" /\ result # None

\* C11: merging is associative: merged([merged([A, B]), C]), merged([A, merged([B, C])])
\* and merged([A, B, C]) have identical vertex and index sequences, and merging
\* meshes that were themselves merged from groups of meshes equals merging all
\* the meshes directly in the same order.
C11_MergedAssociative ==
    GroupingsReturned =>
        \E g \in {Unwrap(result[1])} :
            /\ g.left = g.flat
            /\ g.right = g.flat
            /\ g.chunks = g.flat
            /\ g.chunk = g.flat
            /\ g.flat = merged(args.meshes)

\* C11 witness: three meshes, each with vertices and an index above 0, have been
\* merged in every grouping
C11_ThreeMeshesGrouped ==
    /\ GroupingsReturned
    /\ \A i \in 1..3 :
          /\ Len(args.meshes[i].vertices) = 2
          /\ Len(args.meshes[i].indices) = 2
          /\ args.meshes[i].indices[2] = 1
    /\ Len(Unwrap(result[1]).left.indices) = 6

\* the call named op is over
Returned(op) == args # <<>> /\ args.op = op /\ result # None

\* C12: for every world position P, negative components included, with
\* (c, l) = P.local_chunk_position(), l.world_position(c) is P.
C12_PositionRoundTrip ==
    Returned("world_position") => result[1] = Ok(args.world_position)

\* C12 witness: the round trip of a position with negative and positive
\* components that lies outside chunk (0, 0, 0) on every axis is over
C12_NegativeRoundTrip ==
    /\ Returned("world_position")
    /\ args.world_position[1] < -CHUNK_SIZE
    /\ args.world_position[2] = -1
    /\ args.world_position[3] > CHUNK_SIZE
    /\ result[1] = Ok(args.world_position)

\* c is the floor of v / CHUNK_SIZE
IsFloor(c, v) == c * CHUNK_SIZE <= v /\ v < (c + 1) * CHUNK_SIZE

\* C13: chunk_position() is the floor (not the truncation) of each component
\* divided by CHUNK_SIZE, so each component of the local position lies in
\* 0..CHUNK_SIZE-1, for negative world positions too (x = -1 is in chunk -1 at
\* local CHUNK_SIZE-1).
C13_ChunkPositionIsFloor ==
    /\ Returned("chunk_position") =>
          \A i \in 1..3 : IsFloor(Unwrap(result[1])[i], args.world_position[i])
    /\ Returned("local_chunk_position") =>
          \A i \in 1..3 :
              /\ IsFloor(Unwrap(result[1])[1][i], args.world_position[i])
              /\ Unwrap(result[1])[2][i] \in 0..(CHUNK_SIZE - 1)
              /\ args.world_position[i] = -1 =>
                    Unwrap(result[1])[1][i] = -1 /\ Unwrap(result[1])[2][i] = CHUNK_SIZE - 1

\* C13 witness: local_chunk_position of a position with x = -1 has returned
\* chunk x = -1 and local x = CHUNK_SIZE - 1
C13_MinusOne ==
    /\ Returned("local_chunk_position")
    /\ args.world_position[1] = -1
    /\ args.world_position[2] < -CHUNK_SIZE
    /\ Unwrap(result[1])[1][1] = -1
    /\ Unwrap(result[1])[2][1] = CHUNK_SIZE - 1

\* local position lp has a component that is CHUNK_SIZE or more
OutOfChunk(lp) == lp[1] >= CHUNK_SIZE \/ lp[2] >= CHUNK_SIZE \/ lp[3] >= CHUNK_SIZE

\* C14: Chunk::get_voxel_type with a local position that has a component of
\* CHUNK_SIZE or more returns Air, without a panic.
C14_OutOfRangeReadsAir ==
    (Returned("get_voxel_type") /\ OutOfChunk(args.local_position)) => result[1] = Ok("Air")

\* C14 witness: a read of a generated chunk with only y out of range, at a
\* position whose index lies inside the array on a solid voxel, has returned
C14_ReadPastTop ==
    /\ Returned("get_voxel_type")
    /\ args.local_position = <<0, CHUNK_SIZE, 0>>
    /\ args.chunk.voxels[index(0, CHUNK_SIZE, 0) + 1] # VoxelTypeInto("Air")
    /\ result[1] = Ok("Air")

\* C15: Chunk::set_voxel with a local position that has a component of CHUNK_SIZE
\* or more, and set_y_slice with y of CHUNK_SIZE or more, are no-ops: every cell
\* keeps its value, the array keeps its length, and there is no panic.
C15_OutOfRangeWriteIsNoOp ==
    /\ (Returned("set_voxel") /\ OutOfChunk(args.local_position)) =>
          /\ result[1] = Ok(args.chunk)
          /\ Len(Unwrap(result[1]).voxels) = CHUNK_SIZE * CHUNK_SIZE * CHUNK_SIZE
    /\ (Returned("set_y_slice") /\ args.y >= CHUNK_SIZE) =>
          /\ result[1] = Ok(args.chunk)
          /\ Len(Unwrap(result[1]).voxels) = CHUNK_SIZE * CHUNK_SIZE * CHUNK_SIZE

\* C15 witness: a write of Stone with only x out of range, at a position whose
\* index lies inside the array on a voxel that is not Stone, has returned
C15_WritePastSide ==
    /\ Returned("set_voxel")
    /\ args.local_position = <<CHUNK_SIZE, 0, 0>>
    /\ args.voxel_type = "Stone"
    /\ args.chunk.voxels[index(CHUNK_SIZE, 0, 0) + 1] # VoxelTypeInto("Stone")
    /\ result[1] = Ok(args.chunk)

\* C16: Mesh::world builds a mesh only for the loaded chunks that have no entry in
\* the mesh cache when it starts (the steps of Spec that leave chunk_data and
\* last_update_position as they are); across passes and builds, every entry of
\* the cache stays in the cache with the mesh it had.
C16_CachedMeshesKept ==
    [][/\ \A p \in DOMAIN chunk_meshes :
              p \in DOMAIN chunk_meshes' /\ chunk_meshes'[p] = chunk_meshes[p]
       /\ IF chunk_data' = chunk_data /\ last_update_position' = last_update_position
          THEN DOMAIN chunk_meshes' \ DOMAIN chunk_meshes = DOMAIN chunk_data \ DOMAIN chunk_meshes
          ELSE DOMAIN chunk_meshes' = DOMAIN chunk_meshes]_vars

\* C16 witness: after builds on both sides of a pass, every loaded chunk has a
\* cache entry, and the entry of one of them is the mesh of an earlier build: it
\* differs from the mesh a build against the world as it is now would give
C16_EarlierMeshKept ==
    /\ chunk_data # <<>>
    /\ DOMAIN chunk_data \subseteq DOMAIN chunk_meshes
    /\ \E p \in DOMAIN chunk_data : MeshChunk(World, chunk_data[p]) # Ok(chunk_meshes[p])

\* C17: on a fresh world, after update_chunks((0, 0, 0)) followed by the mesh
\* build (the cache then holds exactly the loaded chunks), every loaded chunk
\* with chunk-grid y = 0 has a non-empty mesh.
C17_GroundChunksMeshed ==
    (last_update_position = Some(<<0, 0, 0>>) /\ chunk_data # <<>>
        /\ DOMAIN chunk_meshes = DOMAIN chunk_data) =>
        \A p \in DOMAIN chunk_data :
            p[2] = 0 => Len(chunk_meshes[p].vertices) > 0 /\ Len(chunk_meshes[p].indices) > 0

\* the chunk holds a voxel other than Air
HasTerrain(chunk) == \E i \in DOMAIN chunk.voxels : chunk.voxels[i] # VoxelTypeInto("Air")

\* C19: the chunks that update_chunks generates hold layered terrain only at the
\* ground Y-layer: at most one chunk-grid y has loaded chunks with a voxel other
\* than Air, and a chunk generated at any other y is all Air.
C19_TerrainOnlyAtGroundLayer ==
    Cardinality({p[2] : p \in {q \in DOMAIN chunk_data : HasTerrain(chunk_data[q])}}) <= 1

\* the voxels of the chunk that are not invisible
VisibleVoxels(chunk) ==
    {i \in DOMAIN chunk.voxels : ~VoxelRegistryInit[VoxelType[chunk.voxels[i] + 1]].is_invisible}

\* C18: invisible voxels emit no geometry: Mesh::chunk skips every voxel whose
\* properties are is_invisible (a mesh holds at most the 24 vertices and 36
\* indices of each voxel that is not), so an all-Air chunk yields 0 vertices and
\* 0 indices whatever its neighbours contain.
C18_InvisibleVoxelsSkipped ==
    Returned("chunk") =>
        /\ ~Panicked(result[1])
        /\ Len(Unwrap(result[1]).vertices) <= 24 * Cardinality(VisibleVoxels(args.chunk))
        /\ Len(Unwrap(result[1]).indices) <= 36 * Cardinality(VisibleVoxels(args.chunk))
        /\ ~HasTerrain(args.chunk) => result[1] = Ok(MeshEmpty)

\* C18 witness: Mesh::chunk has returned for an all-Air chunk at a negative
\* position, next to loaded chunks of solid terrain on some sides and to chunks
\* that are not loaded on others
C18_AirChunkAmongTerrain ==
    /\ Returned("chunk")
    /\ ~HasTerrain(args.chunk)
    /\ args.chunk.position = <<-1, 0, 0>>
    /\ <<0, 0, 0>> \in DOMAIN chunk_data
    /\ <<-2, 0, 0>> \notin DOMAIN chunk_data
    /\ result[1] = Ok(MeshEmpty)

\* C20: a frame of App::update runs a streaming pass at the camera's chunk
\* position (which records it as last_update_position and loads its target set)
\* followed by a world-mesh rebuild (every loaded chunk then has a cache entry)
\* exactly when the camera's chunk position differs from last_update_position;
\* in a frame where they are equal, chunk_data and the mesh cache are unchanged,
\* and since every frame leaves last_update_position at the camera's chunk,
\* consecutive frames inside one chunk run at most one pass.
C20_PassOnlyOnChunkChange ==
    [][args'.op = "update" =>
          /\ last_update_position' = Some(args'.camera_chunk)
          /\ IF last_update_position # Some(args'.camera_chunk)
             THEN /\ DOMAIN chunk_data' = TargetSet(args'.camera_chunk)
                  /\ DOMAIN chunk_data' \subseteq DOMAIN chunk_meshes'
             ELSE /\ chunk_data' = chunk_data
                  /\ chunk_meshes' = chunk_meshes]_vars

\* C20 witness: a frame found the camera in the chunk of the last pass, in a
\* world that an earlier frame had streamed and meshed at another chunk too
C20_FrameInsideSameChunk ==
    /\ args # <<>>
    /\ args.op = "update"
    /\ args.last_update_position = Some(args.camera_chunk)
    /\ last_update_position = Some(args.camera_chunk)
    /\ DOMAIN chunk_data \subseteq DOMAIN chunk_meshes
    /\ DOMAIN chunk_meshes # DOMAIN chunk_data

\* C22: determine_chunks_in_range(origin) returns, without duplicates, exactly
\* the positions with (x-ox)^2 + (z-oz)^2 <= RENDER_DISTANCE_XZ^2 and
\* |y-oy| <= RENDER_DISTANCE_Y (the vertical difference is a band and is not
\* part of the horizontal test), and the set for origin o is the set for origin
\* (0, 0, 0) translated by o.
C22_CylinderWithoutDuplicates ==
    Returned("determine_chunks_in_range") =>
        \E r \in {Unwrap(result[1])}, o \in {args.origin} :
            /\ Cardinality(SeqToSet(r)) = Len(r)
            /\ SeqToSet(r) = TargetSet(o)
            /\ SeqToSet(r) = {<<q[1] + o[1], q[2] + o[2], q[3] + o[3]>> :
                                 q \in SeqToSet(determine_chunks_in_range(<<0, 0, 0>>))}

\* C22 witness: the call has returned for an origin with negative and positive
\* coordinates, and the result holds a position at the full vertical distance
\* and the full horizontal distance at once
C22_CornerOfCylinder ==
    /\ Returned("determine_chunks_in_range")
    /\ args.origin = <<-2, 1, -1>>
    /\ <<-2 - RENDER_DISTANCE_XZ, 1 + RENDER_DISTANCE_Y, -1>> \in SeqToSet(Unwrap(result[1]))

\* the squared chunk-grid distance of p from o
DistanceSquared(p, o) ==
    (p[1] - o[1]) * (p[1] - o[1]) + (p[2] - o[2]) * (p[2] - o[2]) + (p[3] - o[3]) * (p[3] - o[3])

\* C23: the sequence determine_chunks_in_range(origin) returns (the order in
\* which load_in_range_chunks inserts) is in ascending distance from the
\* origin: the origin chunk is first and no chunk precedes one that is strictly
\* nearer (squared chunk-grid distance dx^2 + dy^2 + dz^2).
C23_NearestFirst ==
    Returned("determine_chunks_in_range") =>
        \E r \in {Unwrap(result[1])}, o \in {args.origin} :
            /\ Len(r) > 0
            /\ r[1] = o
            /\ \A i \in 1..Len(r) : \A j \in i..Len(r) :
                  DistanceSquared(r[i], o) <= DistanceSquared(r[j], o)

\* C23 witness: the call has returned for a negative origin a sequence that
\* starts at the origin and ends at a chunk farther away than its second one
C23_SortedAroundNegativeOrigin ==
    /\ Returned("determine_chunks_in_range")
    /\ args.origin = <<-1, -2, -2>>
    /\ \E r \in {Unwrap(result[1])} :
          /\ r[1] = args.origin
          /\ DistanceSquared(r[2], args.origin) = 1
          /\ DistanceSquared(r[Len(r)], args.origin) > 1

\* C26: after Mesh::world returns, every key of chunk_data has a mesh-cache entry,
\* so the lookup guarded by expect("Should have generated or cached each chunk
\* mesh") never fails, from any reachable world state (states whose cache holds
\* entries of chunks that were unloaded and loaded again included).
C26_EveryLoadedChunkCached ==
    /\ result # Some(Panic)
    /\ DOMAIN chunk_data \subseteq DOMAIN chunk_meshes

\* C26 witness: the frame that has just run loaded a chunk that the pass before
\* it had not kept, and Mesh::world found a cache entry for it: the entry is
\* an earlier build's mesh, which differs from a build against the world as it is
C26_ReloadedChunkFoundCached ==
    /\ args # <<>>
    /\ args.last_update_position # None
    /\ \E p \in DOMAIN chunk_data :
          /\ ~InRadius(p, args.last_update_position[1])
          /\ MeshChunk(World, chunk_data[p]) # Ok(chunk_meshes[p])

\* C27: after any sequence of camera moves, each followed by update_chunks and
\* Mesh::world, the cached mesh of every loaded chunk equals the mesh Mesh::chunk
\* builds from the current world state (so no cached mesh draws a face toward a
\* neighbour that is now a loaded occluding voxel, and none lacks a face toward
\* a neighbour whose chunk has since been evicted).
C27_CacheCoherent ==
    \A p \in DOMAIN chunk_data :
        p \in DOMAIN chunk_meshes /\ MeshChunk(World, chunk_data[p]) = Ok(chunk_meshes[p])

\* the index x + y*S + z*S*S of cell c
LinearIndex(c) == c[1] + c[2] * CHUNK_SIZE + c[3] * CHUNK_SIZE * CHUNK_SIZE

\* C28: after Chunk::empty or Chunk::dev_chunk and any sequence of set_voxel,
\* set_y_slice and set_y_range calls, in range or out of range, the voxel array
\* has exactly CHUNK_SIZE^3 elements; cell (x, y, z) lives at index
\* x + y*S + z*S*S (distinct in-range cells have distinct indices below S^3);
\* an in-range set_voxel changes only that one cell, and the next
\* get_voxel_type of the same position returns the type written.
C28_ChunkArrayLaidOut ==
    [][/\ Len(args'.chunk.voxels) = CHUNK_SIZE * CHUNK_SIZE * CHUNK_SIZE
       /\ \A c \in Cells :
             /\ LinearIndex(c) \in 0..(CHUNK_SIZE * CHUNK_SIZE * CHUNK_SIZE - 1)
             /\ \A d \in Cells : LinearIndex(c) = LinearIndex(d) => c = d
       /\ (args'.op = "set_voxel" /\ args'.local_position \in Cells) =>
             /\ \A c \in Cells :
                   args'.chunk.voxels[LinearIndex(c) + 1]
                       = IF c = args'.local_position THEN VoxelTypeInto(args'.voxel_type)
                         ELSE args.chunk.voxels[LinearIndex(c) + 1]
             /\ ChunkGetVoxelType(args'.chunk, args'.local_position) = Ok(args'.voxel_type)]_vars

\* C28 witness: after an earlier write, an in-range set_voxel has written Stone
\* to the far corner of a chunk whose other cells are not all Stone
C28_CornerWritten ==
    /\ args # <<>>
    /\ args.op = "set_voxel"
    /\ edits = MaxChunkOps
    /\ args.local_position = <<CHUNK_SIZE - 1, CHUNK_SIZE - 1, CHUNK_SIZE - 1>>
    /\ args.voxel_type = "Stone"
    /\ args.chunk.voxels[Len(args.chunk.voxels)] = VoxelTypeInto("Stone")
    /\ args.chunk.voxels[1] = VoxelTypeInto("Air")
    /\ args.chunk.voxels[CHUNK_SIZE] # VoxelTypeInto("Air")

\* C29: in every reachable state every value stored in a loaded chunk decodes to
\* a VoxelType (the expect "Chunks should not store invalid voxel types" never
\* fires) and that type has an entry in the built-in registry, so get_properties
\* panics neither in the queries of World nor in meshing; for a type without an
\* entry get_properties panics, and does not return default properties.
C29_RegistryIntegrity ==
    /\ \A p \in DOMAIN chunk_data : \A i \in DOMAIN chunk_data[p].voxels :
          /\ VoxelTypeTryFrom(chunk_data[p].voxels[i]) # None
          /\ VoxelTypeTryFrom(chunk_data[p].voxels[i])[1] \in DOMAIN VoxelRegistryInit
    /\ \A wp \in QueryPositions :
          /\ ~Panicked(get_voxel_type(World, wp))
          /\ ~Panicked(get_is_occluding(World, wp))
    /\ Returned("chunk") => ~Panicked(result[1])
    /\ Returned("get_properties") =>
          IF args.voxel_type \in DOMAIN args.registry
          THEN result[1] = Ok(args.registry[args.voxel_type])
          ELSE Panicked(result[1])

\* C29 witness: in a world with loaded chunks, get_properties has panicked for
\* Grass on a registry that has every entry but the one of Grass
C29_MissingEntryPanics ==
    /\ chunk_data # <<>>
    /\ Returned("get_properties")
    /\ args.voxel_type = "Grass"
    /\ DOMAIN args.registry = VoxelTypes \ {"Grass"}
    /\ Panicked(result[1])

\* C21: the world mesh Mesh::world returns is the concatenation of the chunk
\* meshes in the priority order of the target set (ascending distance from the
\* last origin): when a frame is over, the mesh it returned is the merge of the
\* cached meshes of determine_chunks_in_range(last origin), in that order.
C21_MergedInPriorityOrder ==
    (args.pc = "done") =>
        result = Some(Ok(merged(
            Let(determine_chunks_in_range(Unwrap(last_update_position)), LAMBDA priority :
                [i \in 1..Len(priority) |-> chunk_meshes[priority[i]]]))))

\* C24: in Mesh::world the build phase and the commit phase are not interleaved:
\* no step changes chunk_data or the mesh cache from the moment Mesh::world
\* reads the keys until the parallel map has returned (so every task reads
\* them as they were when Mesh::world started), and a step that changes the
\* mesh cache is taken in the commit loop, when every task has yielded its mesh.
C24_BuildThenCommit ==
    [][/\ (args.pc \in {"collect", "build"}) =>
             (chunk_data' = chunk_data /\ chunk_meshes' = chunk_meshes)
       /\ (chunk_meshes' # chunk_meshes) =>
             /\ args.pc = "commit"
             /\ DOMAIN args.new_chunk_meshes = 1..Len(args.uncached_chunks)]_vars

\* A later frame (the cache holds the meshes of the frame before) in its build
\* phase: some tasks are over, some are not, and none of the meshes that were
\* built is in the cache
C24_BuiltNotYetCommitted ==
    /\ args.pc = "build"
    /\ args.built >= 1
    /\ NextTask(args) # 0
    /\ DOMAIN chunk_meshes # {}
    /\ \A i \in DOMAIN args.new_chunk_meshes : args.uncached_chunks[i] \notin DOMAIN chunk_meshes

\* The cells of a chunk with x outermost and z innermost
CellsXYZ ==
    [k \in 1..(CHUNK_SIZE * CHUNK_SIZE * CHUNK_SIZE) |->
        CHOOSE c \in Cells : (c[1] * CHUNK_SIZE + c[2]) * CHUNK_SIZE + c[3] = k - 1]

\* The meshes of the visible voxels of the chunk among the cells, in their order
VoxelMeshesOf(w, chunk, cells) ==
    Let(SelectSeq(cells, LAMBDA c : chunk.voxels[index(c[1], c[2], c[3]) + 1] # 0), LAMBDA visible :
        [k \in 1..Len(visible) |->
            Unwrap(MeshVoxel(world_position(visible[k], chunk.position),
                             VoxelRegistryInit[VoxelType[chunk.voxels[index(visible[k][1], visible[k][2],
                                                                            visible[k][3]) + 1] + 1]],
                             Unwrap(get_occluding_neighbors(w, world_position(visible[k], chunk.position)))))])

\* The world as it was when the Mesh::world that is now at its merge started:
\* the cache without the entries of uncached_chunks
WorldAtStart(w, f) ==
    [w EXCEPT !.chunk_meshes =
        Strict([p \in DOMAIN w.chunk_meshes \ SeqToSet(f.uncached_chunks) |-> w.chunk_meshes[p]])]

\* C25: the build tasks have no side effect on shared state: whatever the
\* order in which the tasks ran, when the commit loop of Mesh::world is over
\* chunk_data is what it was, each task's result is the mesh Mesh::chunk builds
\* of its chunk in the world as it was when Mesh::world started, the cache is
\* the one a sequential Mesh::world yields from that world, and each mesh is
\* the merge of the meshes of the chunk's visible voxels with x outermost, y
\* in the middle and z innermost.
C25_ScheduleIndependent ==
    [][(args.pc = "commit" /\ args'.pc = "done") =>
          Let(WorldAtStart(World, args), LAMBDA start :
              /\ SeqToSet(args.chunk_positions) = DOMAIN chunk_data
              /\ MeshWorldCache(start) = Ok(chunk_meshes)
              /\ \A i \in 1..Len(args.uncached_chunks) :
                    /\ Ok(args.new_chunk_meshes[i]) =
                           MeshChunk(start, chunk_data[args.uncached_chunks[i]])
                    /\ args.new_chunk_meshes[i] =
                           merged(VoxelMeshesOf(start, chunk_data[args.uncached_chunks[i]], CellsXYZ)))]_vars

\* The commit loop of a Mesh::world is over whose tasks ran in an order other
\* than that of uncached_chunks, and the mesh of a chunk it built holds the
\* faces of more than one voxel
C25_BuiltOutOfOrder ==
    /\ args.pc = "commit"
    /\ args.committed = Len(args.uncached_chunks)
    /\ args.schedule # InOrder(Len(args.uncached_chunks))
    /\ \E i \in 1..Len(args.uncached_chunks) :
          /\ Len(args.new_chunk_meshes[i].vertices) > 24
          /\ chunk_meshes[args.uncached_chunks[i]] = args.new_chunk_meshes[i]

\* C30: nothing cancels or suspends a frame: a streaming pass that has started
\* reaches its end (the eviction, then the load), the Mesh::world that follows
\* it reaches its end (the tasks, the commit loop, the merge) without a panic,
\* and the next pass begins (last_update_position is set anew) only when that
\* Mesh::world has returned.
C30_FrameRunsToCompletion ==
    /\ (args.pc = "unload") ~> (args.pc = "collect")
    /\ (args.pc = "collect") ~> (args.pc = "done" /\ result # None /\ result # Some(Panic))
    /\ [][(last_update_position' # last_update_position) =>
             (args.pc \in {"idle", "done"} /\ args'.pc = "unload")]_vars

\* A second pass (the world holds chunks and cached meshes of the frame before)
\* followed by a Mesh::world that built, committed and merged
C30_SecondFrameOver ==
    /\ args.pc = "done"
    /\ args.frames = 2
    /\ result # None
    /\ result # Some(Panic)
    /\ DOMAIN chunk_data \subseteq DOMAIN chunk_meshes
    /\ DOMAIN chunk_meshes # DOMAIN chunk_data

====
